---- MODULE Spec2Model ----
(***************************************************************************)
(* A model of the turn-execution pipeline of codex-rs: the context         *)
(* manager's history normalisation, the plan tool and remote compaction,   *)
(* the Chat-Completions SSE decoder, turn signing, the shell approval path, *)
(* the tool router and the client's 401 handling.                          *)
(*                                                                         *)
(* Each subsystem has its own specification (SpecHistory, SpecSession,     *)
(* SpecChat, ...) over its own variables; the variables of the other       *)
(* subsystems stay at their initial values in it.                          *)
(*                                                                         *)
(* Option<T> is modelled as a set with at most one element: None is {},    *)
(* Some(x) is {x}.                                                         *)
(***************************************************************************)
EXTENDS Integers, Sequences, FiniteSets, TLC

VARIABLES
    \* ---- ContextManager (core/src/context_manager, core/src/state/session.rs)
    items,          \* SessionState.history: the ordered Vec<ResponseItem>
    prompt_input,   \* the last projection handed to a Prompt
    \* ---- SessionState plan and remote compaction
    current_plan,   \* SessionState.current_plan: Option<UpdatePlanArgs>
    plan_reply,     \* what the last update_plan call returned to the model
    plan_event,     \* the last EventMsg::PlanUpdate sent, if any
    compact,        \* the locals of run_remote_compact_task_inner_impl
    sess_events,    \* the events the compaction task sent on the event channel
    \* ---- turn signing (codex-api/src/turn_signing.rs)
    signatures,     \* the TurnSignature values sign has produced, with what they sign
    verification,   \* the last verify_signature call: its arguments, its clock, its result
    \* ---- the Chat-Completions SSE decoder (codex-api/src/sse/chat.rs)
    chat,           \* the locals of one process_chat_sse run and what it sent
    order,          \* two process_chat_sse runs over two orders of the same fragments
    \* ---- shell approval (core/src/tools/handlers/shell.rs, runtimes/shell.rs)
    shell,          \* the session's approval cache and the last shell dispatch
    \* ---- the tool router (core/src/tools/router.rs)
    router,         \* the tool calls dispatched so far, each with what came back
    \* ---- the 401 loop of the model client (core/src/client.rs)
    client,         \* the locals of one stream_* call and what it did
    \* ---- unified exec (core/src/unified_exec/session_manager.rs)
    exec,           \* UnifiedExecSessionManager: the session table, the calls in flight
    \* ---- the Responses SSE decoder (codex-api/src/sse/responses.rs)
    responses,      \* the locals of one process_sse run and what it sent
    \* ---- the Chat request builder (codex-api/src/requests/chat.rs)
    request,        \* the history handed to the builder and the messages it built
    \* ---- forking (core/src/conversation_manager.rs)
    fork,           \* the rollout read, the cut asked for, the history spawned with
    \* ---- ConversationManager and the conversation -> connection map
    manager         \* the conversations held, the connection map, the last lookup

histVars == <<items, prompt_input>>
sessVars == <<current_plan, plan_reply, plan_event, compact, sess_events>>
signVars == <<signatures, verification>>
chatVars == <<chat, order>>
toolVars == <<shell, router, client>>
buildVars == <<request, fork, manager>>
moreVars == <<exec, responses, buildVars>>
vars == <<histVars, sessVars, signVars, chatVars, toolVars, moreVars>>

None == {}
Some(x) == {x}
IsSome(o) == o # {}
Unwrap(o) == CHOOSE x \in o : TRUE

Last(s) == s[Len(s)]
Range(s) == {s[i] : i \in 1..Len(s)}

(***************************************************************************)
(* ResponseItem.  Every variant is a record with the same fields; fields a *)
(* variant does not have are empty.                                        *)
(***************************************************************************)
PLACEHOLDER == "aborted (tool execution interrupted)"

ResponseItem(type, role, call_id, text) ==
    [type |-> type, role |-> role, call_id |-> call_id, text |-> text]

Message(role, text) == ResponseItem("Message", role, None, text)
FunctionCall(call_id) == ResponseItem("FunctionCall", "", Some(call_id), <<>>)
FunctionCallOutput(call_id, content) ==
    ResponseItem("FunctionCallOutput", "", Some(call_id), <<content>>)
CustomToolCall(call_id) == ResponseItem("CustomToolCall", "", Some(call_id), <<>>)
CustomToolCallOutput(call_id, output) ==
    ResponseItem("CustomToolCallOutput", "", Some(call_id), <<output>>)
LocalShellCall(call_id) == ResponseItem("LocalShellCall", "", call_id, <<>>)
GhostSnapshot(n) == ResponseItem("GhostSnapshot", "", None, <<"ghost", n>>)
CompactionSummary == ResponseItem("CompactionSummary", "", None, <<"summary">>)

\* ---- bounds of the history model
MaxHistory == 3
CallIds == {"c1", "c2"}

\* The items record_items may append in SpecHistory.
HistoryItems ==
    {FunctionCall(c) : c \in CallIds}
    \cup {FunctionCallOutput(c, "ok") : c \in CallIds}
    \cup {CustomToolCall(c) : c \in CallIds}
    \cup {CustomToolCallOutput(c, "ok") : c \in CallIds}
    \cup {LocalShellCall(Some(c)) : c \in CallIds}
    \cup {LocalShellCall(None), Message("user", <<"hi">>)}

(***************************************************************************)
(* normalize.rs                                                            *)
(***************************************************************************)
\* items.iter().any(|i| matches!(i, <type> { call_id: existing } if existing == call_id))
HasItem(its, type, call_id) ==
    \E j \in 1..Len(its) : its[j].type = type /\ its[j].call_id = Some(call_id)

\* A variant that accepts an output of either kind as the call's output.
MissingOutputForAnyKind(its, idx) ==
    LET item == its[idx]
        any(c) == HasItem(its, "FunctionCallOutput", c) \/ HasItem(its, "CustomToolCallOutput", c)
    IN
    IF item.type = "FunctionCall" /\ ~any(Unwrap(item.call_id))
    THEN <<FunctionCallOutput(Unwrap(item.call_id), PLACEHOLDER)>>
    ELSE IF item.type = "CustomToolCall" /\ ~any(Unwrap(item.call_id))
    THEN <<CustomToolCallOutput(Unwrap(item.call_id), PLACEHOLDER)>>
    ELSE IF item.type = "LocalShellCall" /\ IsSome(item.call_id)
            /\ ~any(Unwrap(item.call_id))
    THEN <<FunctionCallOutput(Unwrap(item.call_id), PLACEHOLDER)>>
    ELSE <<>>

\* The synthetic output ensure_call_outputs_present pushes for the item at
\* idx: a one-element sequence, or empty when the item needs none.
MissingOutputFor(its, idx) ==
    LET item == its[idx] IN
    IF item.type = "FunctionCall" /\ ~HasItem(its, "FunctionCallOutput", Unwrap(item.call_id))
    THEN <<FunctionCallOutput(Unwrap(item.call_id), PLACEHOLDER)>>
    ELSE IF item.type = "CustomToolCall"
            /\ ~HasItem(its, "CustomToolCallOutput", Unwrap(item.call_id))
    THEN <<CustomToolCallOutput(Unwrap(item.call_id), PLACEHOLDER)>>
    ELSE IF item.type = "LocalShellCall" /\ IsSome(item.call_id)
            /\ ~HasItem(its, "FunctionCallOutput", Unwrap(item.call_id))
    THEN <<FunctionCallOutput(Unwrap(item.call_id), PLACEHOLDER)>>
    ELSE <<>>

\* missing_outputs_to_insert: the (idx, item) pairs, in index order.
RECURSIVE missing_outputs_to_insert(_, _)
missing_outputs_to_insert(its, idx) ==
    IF idx > Len(its) THEN <<>>
    ELSE (IF MissingOutputFor(its, idx) = <<>> THEN <<>>
          ELSE <<[idx |-> idx, item |-> MissingOutputFor(its, idx)[1]]>>)
         \o missing_outputs_to_insert(its, idx + 1)

\* Vec::insert(idx + 1, x) for the item at (1-based) position idx.
InsertAfter(its, idx, x) == SubSeq(its, 1, idx) \o <<x>> \o SubSeq(its, idx + 1, Len(its))

\* for (idx, output_item) in missing.into_iter().rev() { items.insert(idx + 1, ..) }
RECURSIVE InsertRev(_, _, _)
InsertRev(its, missing, k) ==
    IF k = 0 THEN its
    ELSE InsertRev(InsertAfter(its, missing[k].idx, missing[k].item), missing, k - 1)

ensure_call_outputs_present(its) ==
    LET missing == missing_outputs_to_insert(its, 1)
    IN InsertRev(its, missing, Len(missing))

CallIdsOf(its, type) ==
    {Unwrap(its[j].call_id) : j \in {k \in 1..Len(its) : its[k].type = type /\ IsSome(its[k].call_id)}}

\* items.retain(..): the predicate of remove_orphan_outputs.
RetainItem(its, item) ==
    IF item.type = "FunctionCallOutput"
    THEN Unwrap(item.call_id) \in CallIdsOf(its, "FunctionCall")
         \/ Unwrap(item.call_id) \in CallIdsOf(its, "LocalShellCall")
    ELSE IF item.type = "CustomToolCallOutput"
    THEN Unwrap(item.call_id) \in CallIdsOf(its, "CustomToolCall")
    ELSE TRUE

remove_orphan_outputs(its) ==
    LET keep(item) == RetainItem(its, item) IN SelectSeq(its, keep)

\* ContextManager::get_history_for_prompt: (a) pair-fill, (b) orphan prune.
get_history_for_prompt(its) == remove_orphan_outputs(ensure_call_outputs_present(its))

\* ---- actions of the history
record_items(S) ==
    /\ Len(items) < MaxHistory
    /\ \E item \in S : items' = Append(items, item)
    /\ UNCHANGED prompt_input

BuildPrompt ==
    /\ prompt_input' = get_history_for_prompt(items)
    /\ UNCHANGED items

(***************************************************************************)
(* The plan tool: tools/handlers/plan.rs and state/session.rs              *)
(***************************************************************************)
\* ---- bounds of the session model
MaxPlanLen == 4
MaxCompactPlanLen == 2
MaxCompactions == 1

StepStatus == {"pending", "in_progress", "completed"}
PlanItemArg == [step : {"s"}, status : StepStatus]
PlansUpTo(n) == UNION {[1..k -> PlanItemArg] : k \in 0..n}
Plans == PlansUpTo(MaxPlanLen)

\* The arguments string of an update_plan call, by what the parser makes of
\* it: well-formed JSON, the <arg_key>/<arg_value> form, or neither.
UpdatePlanArguments ==
    [format : {"json", "xml"}, plan : Plans] \cup {[format |-> "garbage", plan |-> <<>>]}

\* plan.iter().filter(|s| matches!(s.status, ..)).count()
RECURSIVE CountStatus(_, _)
CountStatus(plan, status) ==
    IF plan = <<>> THEN 0
    ELSE (IF Last(plan).status = status THEN 1 ELSE 0)
         + CountStatus(SubSeq(plan, 1, Len(plan) - 1), status)

\* Ok(UpdatePlanArgs) as {plan}, Err(RespondToModel) as {}.
parse_update_plan_arguments(arguments) ==
    IF arguments.format = "json" THEN Some(arguments.plan)
    ELSE IF arguments.format = "xml" /\ arguments.plan # <<>> THEN Some(arguments.plan)
    ELSE None

\* The Ok(String) handle_update_plan returns for a parsed plan.
PlanUpdatedReply(plan) ==
    LET pending_count == CountStatus(plan, "pending")
        in_progress_count == CountStatus(plan, "in_progress")
    IN IF pending_count > 0 \/ in_progress_count > 0
       THEN [ok |-> TRUE, text |-> <<"Plan updated.", pending_count, in_progress_count>>]
       ELSE [ok |-> TRUE, text |-> <<"Plan updated. All steps completed.">>]

\* A variant that keeps the plan whatever the status of its steps.
StoredPlanAfterKeeping(plan) == Some(plan)

\* What handle_update_plan leaves in SessionState.current_plan:
\* set_current_plan(args), then clear_current_plan() when nothing is left.
StoredPlanAfter(plan) ==
    IF CountStatus(plan, "pending") > 0 \/ CountStatus(plan, "in_progress") > 0
    THEN Some(plan)
    ELSE None

CompactIdle ==
    [pc |-> "idle", history |-> <<>>, current_plan |-> None, prompt |-> <<>>,
     new_history |-> <<>>]

handle_update_plan ==
    /\ \E arguments \in UpdatePlanArguments :
        LET args == parse_update_plan_arguments(arguments) IN
        IF args = None
        THEN /\ plan_reply' = Some([ok |-> FALSE, text |-> <<"failed to parse function arguments">>])
             /\ UNCHANGED <<current_plan, plan_event>>
        ELSE /\ current_plan' = StoredPlanAfter(Unwrap(args))
             /\ plan_event' = args
             /\ plan_reply' = Some(PlanUpdatedReply(Unwrap(args)))
    /\ UNCHANGED <<compact, sess_events>>

(***************************************************************************)
(* Remote compaction: compact_remote.rs                                    *)
(***************************************************************************)
\* The items record_items may append in SpecSession.
SessionItems == {Message("user", <<"hi">>), GhostSnapshot(1), GhostSnapshot(2)}

\* What the compact endpoint may return.
CompactedHistories == {<<>>, <<CompactionSummary>>, <<Message("user", <<"hi">>), CompactionSummary>>}

StatusEmoji(status) ==
    IF status = "completed" THEN "done" ELSE IF status = "in_progress" THEN "doing" ELSE "todo"

\* format!("<system-reminder>...") as the tuple of the values it interpolates.
plan_reminder(plan) ==
    <<"system-reminder", Len(plan), CountStatus(plan, "completed"),
      CountStatus(plan, "in_progress"), CountStatus(plan, "pending"),
      [i \in 1..Len(plan) |-> <<StatusEmoji(plan[i].status), plan[i].step>>]>>

\* A variant that looks at pending steps only.
PlanIsInjectedPendingOnly(plan) == CountStatus(plan, "pending") > 0

\* if pending_count > 0 || in_progress_count > 0
PlanIsInjected(plan) ==
    CountStatus(plan, "pending") > 0 \/ CountStatus(plan, "in_progress") > 0

\* A variant that puts the ghost snapshots in front of the replacement.
ReplacementHistoryGhostsFirst(compacted, plan, history) ==
    LET with_plan ==
            IF plan # None /\ PlanIsInjected(Unwrap(plan))
            THEN Append(compacted, Message("user", plan_reminder(Unwrap(plan))))
            ELSE compacted
        is_ghost(item) == item.type = "GhostSnapshot"
        ghost_snapshots == SelectSeq(history, is_ghost)
    IN ghost_snapshots \o with_plan

\* new_history after the plan reminder and the ghost snapshots were added.
ReplacementHistory(compacted, plan, history) ==
    LET with_plan ==
            IF plan # None /\ PlanIsInjected(Unwrap(plan))
            THEN Append(compacted, Message("user", plan_reminder(Unwrap(plan))))
            ELSE compacted
        is_ghost(item) == item.type = "GhostSnapshot"
        ghost_snapshots == SelectSeq(history, is_ghost)
    IN with_plan \o ghost_snapshots

\* clone_history, get_current_plan, and the Prompt built from the clone.
CompactBegin ==
    /\ compact.pc = "idle"
    /\ Len(sess_events) < MaxCompactions
    /\ compact' = [pc |-> "awaiting", history |-> items, current_plan |-> current_plan,
                   prompt |-> get_history_for_prompt(items), new_history |-> <<>>]
    /\ UNCHANGED <<histVars, current_plan, plan_reply, plan_event, sess_events>>

\* compact_conversation_history(&prompt) returned Ok(new_history).
CompactEndpointOk ==
    /\ compact.pc = "awaiting"
    /\ \E compacted \in CompactedHistories :
        compact' = [compact EXCEPT
                      !.pc = "built",
                      !.new_history = ReplacementHistory(compacted, compact.current_plan,
                                                         compact.history)]
    /\ UNCHANGED <<histVars, current_plan, plan_reply, plan_event, sess_events>>

\* A variant that empties the history when the endpoint fails.
CompactEndpointErrClearing ==
    /\ compact.pc = "awaiting"
    /\ compact' = CompactIdle
    /\ sess_events' = Append(sess_events, "Error")
    /\ items' = <<>>
    /\ UNCHANGED <<prompt_input, current_plan, plan_reply, plan_event>>

\* compact_conversation_history(&prompt) returned Err: the Error event.
CompactEndpointErr ==
    /\ compact.pc = "awaiting"
    /\ compact' = CompactIdle
    /\ sess_events' = Append(sess_events, "Error")
    /\ UNCHANGED <<histVars, current_plan, plan_reply, plan_event>>

\* A variant that adds the replacement to the history instead of replacing it.
replace_history_appending ==
    /\ compact.pc = "built"
    /\ items' = items \o compact.new_history
    /\ compact' = [compact EXCEPT !.pc = "installed", !.prompt = <<>>]
    /\ UNCHANGED <<prompt_input, current_plan, plan_reply, plan_event, sess_events>>

\* sess.replace_history(new_history.clone())
replace_history ==
    /\ compact.pc = "built"
    /\ items' = compact.new_history
    /\ compact' = [compact EXCEPT !.pc = "installed", !.prompt = <<>>]
    /\ UNCHANGED <<prompt_input, current_plan, plan_reply, plan_event, sess_events>>

\* send_event(ContextCompacted)
CompactEmit ==
    /\ compact.pc = "installed"
    /\ sess_events' = Append(sess_events, "ContextCompacted")
    /\ compact' = CompactIdle
    /\ UNCHANGED <<histVars, current_plan, plan_reply, plan_event>>

(***************************************************************************)
(* The Chat-Completions SSE decoder: codex-api/src/sse/chat.rs             *)
(*                                                                         *)
(* The locals of process_chat_sse are the fields of one record; tx_event   *)
(* is the sequence of everything sent on the channel.  Assistant text is a *)
(* sequence of tokens (a tag, a function element or a word), so that a     *)
(* delta boundary falls between tokens.  The frames of the model carry no  *)
(* thought_signature and no reasoning_details: these stay None throughout  *)
(* and are left out of the emitted FunctionCall.                           *)
(***************************************************************************)
ReasoningItem(text) == [type |-> "reasoning", text |-> text]
AssistantMessage(content) == [type |-> "message", role |-> "assistant", content |-> content]
FunctionCallItem(name, arguments, call_id) ==
    [type |-> "function_call", name |-> name, arguments |-> arguments, call_id |-> call_id]

OutputItemAdded(item) == [event |-> "OutputItemAdded", item |-> item]
OutputItemDone(item) == [event |-> "OutputItemDone", item |-> item]
OutputTextDelta(text) == [event |-> "OutputTextDelta", text |-> text]
ReasoningContentDelta(delta) == [event |-> "ReasoningContentDelta", delta |-> delta]
Completed(token_usage) ==
    [event |-> "Completed", response_id |-> "", token_usage |-> token_usage]
StreamError(message) == [event |-> "Err", message |-> message]

\* ---- the tokens of assistant text
XmlOpenTag == "<tool_call>"
XmlCloseTag == "</tool_call>"
XmlFunctionElement == "<function=shell><parameter=cmd>ls</parameter></function>"
XmlFunctionName == "shell"
XmlFunctionParametersJson == "{\"cmd\":\"ls\"}"

\* let mut ... at the head of process_chat_sse
NewDecoder ==
    [tool_calls |-> <<>>,
     tool_call_order |-> <<>>,
     tool_call_order_seen |-> {},
     tool_call_index_by_id |-> <<>>,
     next_tool_call_index |-> 0,
     last_tool_call_index |-> None,
     assistant_item |-> None,
     reasoning_item |-> None,
     accumulated_usage |-> None,
     xml_tool_call_buffer |-> <<>>,
     pending_xml_tool_calls |-> <<>>,
     xml_tool_call_counter |-> 0,
     event_count |-> 0,
     tx_event |-> <<>>,
     returned |-> FALSE]

Send(d, e) == [d EXCEPT !.tx_event = Append(@, e)]

\* ToolCallState::default()
DefaultToolCallState == [id |-> None, name |-> None, arguments |-> ""]

\* ---- XML tool calls in assistant text
Positions(buffer, token) == {i \in 1..Len(buffer) : buffer[i] = token}
Min(S) == CHOOSE x \in S : \A y \in S : x <= y

contains_xml_tool_call(buffer) ==
    Positions(buffer, XmlOpenTag) # {} /\ Positions(buffer, XmlCloseTag) # {}

\* TOOL_CALL_RE: the leftmost <tool_call>, at least one character, then the
\* nearest </tool_call>; the result is what lies between, if there is a match.
ToolCallCapture(buffer) ==
    IF Positions(buffer, XmlOpenTag) = {} THEN None
    ELSE LET open == Min(Positions(buffer, XmlOpenTag))
             closes == {j \in Positions(buffer, XmlCloseTag) : j >= open + 2}
         IN IF closes = {} THEN None
            ELSE Some(SubSeq(buffer, open + 1, Min(closes) - 1))

\* FUNCTION_RE and PARAM_RE over the captured text.
parse_xml_tool_call(buffer) ==
    LET capture == ToolCallCapture(buffer)
    IN IF capture = None THEN None
       ELSE IF Positions(Unwrap(capture), XmlFunctionElement) = {} THEN None
       ELSE Some([function_name |-> XmlFunctionName,
                  parameters |-> XmlFunctionParametersJson])

\* The part of append_assistant_text that opens the assistant item when there
\* is none, pushes one OutputText and sends its delta.
PushAssistantText(d, text) ==
    LET opened == IF d.assistant_item = None
                  THEN Send([d EXCEPT !.assistant_item = Some(AssistantMessage(<<>>))],
                            OutputItemAdded(AssistantMessage(<<>>)))
                  ELSE d
        message == Unwrap(opened.assistant_item)
    IN Send([opened EXCEPT !.assistant_item =
                               Some(AssistantMessage(Append(message.content, text)))],
            OutputTextDelta(text))

\* The while loop of append_assistant_text.
RECURSIVE ExtractXmlToolCalls(_)
ExtractXmlToolCalls(d) ==
    IF ~contains_xml_tool_call(d.xml_tool_call_buffer) THEN d
    ELSE LET buffer == d.xml_tool_call_buffer
             parsed == parse_xml_tool_call(buffer)
         IN IF parsed = None THEN d
            ELSE LET end_pos == Min(Positions(buffer, XmlCloseTag))
                     start_pos == Min(Positions(buffer, XmlOpenTag))
                     before_text == SubSeq(buffer, 1, start_pos - 1)
                     pushed == [d EXCEPT !.pending_xml_tool_calls =
                                             Append(@, Unwrap(parsed))]
                     texted == IF before_text # <<>>
                               THEN PushAssistantText(pushed, before_text)
                               ELSE pushed
                 IN ExtractXmlToolCalls(
                        [texted EXCEPT !.xml_tool_call_buffer =
                                           SubSeq(buffer, end_pos + 1, Len(buffer))])

append_assistant_text(d, text) ==
    LET buffered == [d EXCEPT !.xml_tool_call_buffer = @ \o text]
        extracted == ExtractXmlToolCalls(buffered)
    IN IF Positions(extracted.xml_tool_call_buffer, XmlOpenTag) = {}
       THEN LET text_to_output == extracted.xml_tool_call_buffer
                taken == [extracted EXCEPT !.xml_tool_call_buffer = <<>>]
            IN IF text_to_output # <<>>
               THEN PushAssistantText(taken, text_to_output)
               ELSE taken
       ELSE extracted

append_reasoning_text(d, text) ==
    LET opened == IF d.reasoning_item = None
                  THEN Send([d EXCEPT !.reasoning_item = Some(ReasoningItem(""))],
                            OutputItemAdded(ReasoningItem("")))
                  ELSE d
        accumulated_text == Unwrap(opened.reasoning_item).text
    IN Send([opened EXCEPT !.reasoning_item = Some(ReasoningItem(accumulated_text \o text))],
            ReasoningContentDelta(text))

\* ---- tool-call fragments
\* A variant of the slot choice that never looks at the fragment's index and
\* never falls back to the slot touched last.
ResolveIndexById(d, tool_call) ==
    IF tool_call.id # None /\ Unwrap(tool_call.id) \in DOMAIN d.tool_call_index_by_id
    THEN Some(d.tool_call_index_by_id[Unwrap(tool_call.id)])
    ELSE None

\* A variant that does not look up the slot known for the fragment's id.
ResolveIndexByIndex(d, tool_call) ==
    IF tool_call.index = None /\ tool_call.id = None
    THEN d.last_tool_call_index
    ELSE tool_call.index

\* A variant without the fallback to the slot touched last.
ResolveIndexWithoutLast(d, tool_call) ==
    IF tool_call.id # None /\ Unwrap(tool_call.id) \in DOMAIN d.tool_call_index_by_id
    THEN Some(d.tool_call_index_by_id[Unwrap(tool_call.id)])
    ELSE tool_call.index

\* The slot a fragment is routed to, before a fresh slot is allocated:
\* the slot already known for its id, else its own index, else (with neither
\* id nor index) the slot touched last.
ResolveIndex(d, tool_call) ==
    LET index == IF tool_call.id # None
                    /\ Unwrap(tool_call.id) \in DOMAIN d.tool_call_index_by_id
                 THEN Some(d.tool_call_index_by_id[Unwrap(tool_call.id)])
                 ELSE tool_call.index
    IN IF index = None /\ tool_call.id = None THEN d.last_tool_call_index ELSE index

\* while tool_calls.contains_key(&next_tool_call_index) { next_tool_call_index += 1 }
RECURSIVE NextFreeIndex(_, _)
NextFreeIndex(tool_calls, next) ==
    IF next \in DOMAIN tool_calls THEN NextFreeIndex(tool_calls, next + 1) ELSE next

\* A variant in which the last name and the last arguments fragment win.
MergeToolCallOverwriting(d, tool_call) ==
    LET resolved == ResolveIndex(d, tool_call)
        fresh == NextFreeIndex(d.tool_calls, d.next_tool_call_index)
        index == IF resolved = None THEN fresh ELSE Unwrap(resolved)
        call_state == IF index \in DOMAIN d.tool_calls
                      THEN d.tool_calls[index]
                      ELSE DefaultToolCallState
        with_id == IF tool_call.id # None /\ call_state.id = None
                   THEN [call_state EXCEPT !.id = tool_call.id]
                   ELSE call_state
        with_name == IF tool_call.name # None
                     THEN [with_id EXCEPT !.name = tool_call.name]
                     ELSE with_id
        with_arguments == IF tool_call.arguments # None
                          THEN [with_name EXCEPT !.arguments = Unwrap(tool_call.arguments)]
                          ELSE with_name
    IN [d EXCEPT
          !.next_tool_call_index = IF resolved = None THEN fresh + 1 ELSE @,
          !.tool_calls = (index :> with_arguments) @@ @,
          !.tool_call_order = IF index \in d.tool_call_order_seen THEN @
                              ELSE Append(@, index),
          !.tool_call_order_seen = @ \cup {index},
          !.tool_call_index_by_id =
              IF tool_call.id # None /\ Unwrap(tool_call.id) \notin DOMAIN @
              THEN (Unwrap(tool_call.id) :> index) @@ @
              ELSE @,
          !.last_tool_call_index = Some(index)]

\* The body of `for tool_call in tool_call_values`.
MergeToolCall(d, tool_call) ==
    LET resolved == ResolveIndex(d, tool_call)
        fresh == NextFreeIndex(d.tool_calls, d.next_tool_call_index)
        index == IF resolved = None THEN fresh ELSE Unwrap(resolved)
        call_state == IF index \in DOMAIN d.tool_calls
                      THEN d.tool_calls[index]
                      ELSE DefaultToolCallState
        with_id == IF tool_call.id # None /\ call_state.id = None
                   THEN [call_state EXCEPT !.id = tool_call.id]
                   ELSE call_state
        with_name == IF tool_call.name # None /\ Unwrap(tool_call.name) # ""
                        /\ with_id.name = None
                     THEN [with_id EXCEPT !.name = tool_call.name]
                     ELSE with_id
        with_arguments == IF tool_call.arguments # None
                          THEN [with_name EXCEPT
                                    !.arguments = @ \o Unwrap(tool_call.arguments)]
                          ELSE with_name
    IN [d EXCEPT
          !.next_tool_call_index = IF resolved = None THEN fresh + 1 ELSE @,
          !.tool_calls = (index :> with_arguments) @@ @,
          !.tool_call_order = IF index \in d.tool_call_order_seen THEN @
                              ELSE Append(@, index),
          !.tool_call_order_seen = @ \cup {index},
          !.tool_call_index_by_id =
              IF tool_call.id # None /\ Unwrap(tool_call.id) \notin DOMAIN @
              THEN (Unwrap(tool_call.id) :> index) @@ @
              ELSE @,
          !.last_tool_call_index = Some(index)]

RECURSIVE MergeToolCalls(_, _)
MergeToolCalls(d, tool_call_values) ==
    IF tool_call_values = <<>> THEN d
    ELSE MergeToolCalls(MergeToolCall(d, Head(tool_call_values)), Tail(tool_call_values))

\* ---- flushing
FlushReasoning(d) ==
    IF d.reasoning_item = None THEN d
    ELSE Send([d EXCEPT !.reasoning_item = None],
              OutputItemDone(Unwrap(d.reasoning_item)))

\* A variant that forgets the deferred XML tool calls instead of sending them.
FlushXmlToolCallsDropping(d) == [d EXCEPT !.pending_xml_tool_calls = <<>>]

\* for xml_tc in pending_xml_tool_calls.drain(..)
RECURSIVE FlushXmlToolCalls(_)
FlushXmlToolCalls(d) ==
    IF d.pending_xml_tool_calls = <<>> THEN d
    ELSE LET xml_tc == Head(d.pending_xml_tool_calls)
             counter == d.xml_tool_call_counter + 1
             item == FunctionCallItem(xml_tc.function_name, xml_tc.parameters,
                                      "xml-tool-call-" \o ToString(counter))
         IN FlushXmlToolCalls(
                Send([d EXCEPT !.pending_xml_tool_calls = Tail(@),
                               !.xml_tool_call_counter = counter],
                     OutputItemDone(item)))

FlushAssistant(d) ==
    IF d.assistant_item = None THEN d
    ELSE Send([d EXCEPT !.assistant_item = None],
              OutputItemDone(Unwrap(d.assistant_item)))

\* if !completed_sent { send Completed }; return   (completed_sent is never set)
SendCompleted(d) ==
    [Send(d, Completed(d.accumulated_usage)) EXCEPT !.returned = TRUE]

\* A variant that closes the assistant message before the deferred XML calls.
FlushAndCompleteAssistantFirst(d) ==
    SendCompleted(FlushXmlToolCalls(FlushAssistant(FlushReasoning(d))))

\* What end of stream, [DONE] and a terminal finish_reason all do.
FlushAndComplete(d) ==
    SendCompleted(FlushAssistant(FlushXmlToolCalls(FlushReasoning(d))))

\* for index in tool_call_order.drain(..)
RECURSIVE DrainToolCalls(_, _)
DrainToolCalls(d, remaining) ==
    IF remaining = <<>> THEN [d EXCEPT !.tool_call_order = <<>>]
    ELSE LET index == Head(remaining)
         IN IF index \notin DOMAIN d.tool_calls THEN DrainToolCalls(d, Tail(remaining))
            ELSE LET state == d.tool_calls[index]
                     removed ==
                         [d EXCEPT
                            !.tool_calls = [i \in (DOMAIN @) \ {index} |-> @[i]],
                            !.tool_call_order_seen = @ \ {index}]
                     call_id == IF state.id = None
                                THEN "tool-call-" \o ToString(index)
                                ELSE Unwrap(state.id)
                 IN IF state.name = None THEN DrainToolCalls(removed, Tail(remaining))
                    ELSE DrainToolCalls(
                             Send(removed,
                                  OutputItemDone(FunctionCallItem(
                                      Unwrap(state.name), state.arguments, call_id))),
                             Tail(remaining))

\* A variant that also completes the turn when the tool calls are finished.
FinishToolCallsAndComplete(d) ==
    LET drained == DrainToolCalls(FlushReasoning(d), d.tool_call_order)
    IN Send(drained, Completed(drained.accumulated_usage))

\* A variant that sends the tool calls before the open reasoning item.
FinishToolCallsReasoningLast(d) == FlushReasoning(DrainToolCalls(d, d.tool_call_order))

\* finish_reason == Some("tool_calls"): no Completed, and the loop goes on.
FinishToolCalls(d) == DrainToolCalls(FlushReasoning(d), d.tool_call_order)

TerminalFinishReasons == {"stop", "normal", "end_turn", "length"}

\* The body of `for choice in choices`.
ProcessChoice(d, choice) ==
    LET reasoned == IF choice.reasoning # None
                    THEN append_reasoning_text(d, Unwrap(choice.reasoning))
                    ELSE d
        texted == IF choice.content # None
                  THEN append_assistant_text(reasoned, Unwrap(choice.content))
                  ELSE reasoned
        merged == MergeToolCalls(texted, choice.tool_calls)
    IN IF choice.finish_reason \cap TerminalFinishReasons # {}
       THEN FlushAndComplete(merged)
       ELSE IF choice.finish_reason = Some("tool_calls")
       THEN FinishToolCalls(merged)
       ELSE merged

RECURSIVE ProcessChoices(_, _)
ProcessChoices(d, choices) ==
    IF choices = <<>> \/ d.returned THEN d
    ELSE ProcessChoices(ProcessChoice(d, Head(choices)), Tail(choices))

\* ---- SSE frames
\* One SSE event as the decoder sees it: its kind, the usage object and the
\* whole item it carries (if any), and its choices.
Frame(kind, usage, item, choices) ==
    [kind |-> kind, usage |-> usage, item |-> item, choices |-> choices]

Choice(reasoning, content, tool_calls, finish_reason) ==
    [reasoning |-> reasoning, content |-> content,
     tool_calls |-> tool_calls, finish_reason |-> finish_reason]

ToolCallFragment(index, id, name, arguments) ==
    [index |-> index, id |-> id, name |-> name, arguments |-> arguments]

Chunk(usage, choices) == Frame("chunk", usage, None, choices)

\* One pass of the loop body of process_chat_sse over a frame that was read.
ProcessFrame(d, frame) ==
    LET counted == [d EXCEPT !.event_count = @ + 1]
        used == IF frame.usage # None
                THEN [counted EXCEPT !.accumulated_usage = frame.usage]
                ELSE counted
    IN CASE frame.kind = "blank" -> counted
         [] frame.kind = "done" -> FlushAndComplete(counted)
         [] frame.kind = "invalid_json" -> counted
         [] frame.kind = "item" ->
                IF frame.item # None
                THEN SendCompleted(Send(used, OutputItemDone(Unwrap(frame.item))))
                ELSE used
         [] frame.kind = "no_choices" -> used
         [] OTHER -> ProcessChoices(used, frame.choices)

\* ---- bounds of the decoder model
MaxFrames == 5
MaxFragments == 3

Usage == [total_tokens |-> 7]

FragmentA0 == ToolCallFragment(Some(0), Some("a"), Some("f"), None)
FragmentB1 == ToolCallFragment(Some(1), Some("b"), Some("g"), None)
FragmentX0 == ToolCallFragment(Some(0), None, None, Some("x"))
FragmentY0 == ToolCallFragment(Some(0), None, None, Some("y"))
FragmentG1 == ToolCallFragment(Some(1), None, Some("g"), None)
FragmentIdA == ToolCallFragment(None, Some("a"), None, Some("x"))
FragmentBare == ToolCallFragment(None, None, Some("f"), None)
FragmentA1 == ToolCallFragment(Some(1), Some("a"), Some("g"), None)
FragmentEmptyName == ToolCallFragment(Some(0), None, Some(""), Some("y"))

ToolCallFragments ==
    {FragmentA0, FragmentB1, FragmentX0, FragmentY0, FragmentG1, FragmentIdA,
     FragmentBare, FragmentA1, FragmentEmptyName}

FinishChoice(reason) == Choice(None, None, <<>>, Some(reason))

\* The frames a stream is made of in SpecChat.
ChatFrames ==
    {Frame("blank", None, None, <<>>),
     Frame("done", None, None, <<>>),
     Frame("invalid_json", None, None, <<>>),
     Frame("item", None, Some(ReasoningItem("r")), <<>>),
     Frame("item", Some(Usage), Some(AssistantMessage(<<<<"hi">>>>)), <<>>),
     Frame("item", None, None, <<>>),
     Frame("no_choices", Some(Usage), None, <<>>),
     Chunk(None, <<>>),
     Chunk(None, <<Choice(None, Some(<<"hi">>), <<>>, None)>>),
     Chunk(None, <<Choice(Some("r"), None, <<>>, None)>>),
     Chunk(None, <<Choice(None, Some(<<"hi", XmlOpenTag>>), <<>>, None)>>),
     Chunk(None, <<Choice(None, Some(<<XmlFunctionElement, XmlCloseTag>>), <<>>, None)>>),
     Chunk(None, <<Choice(None, Some(<<XmlCloseTag, XmlOpenTag, XmlFunctionElement,
                                       XmlCloseTag>>), <<>>, None)>>),
     Chunk(None, <<Choice(None, None, <<FragmentA0>>, None)>>),
     Chunk(None, <<Choice(None, None, <<FragmentBare>>, None)>>),
     Chunk(None, <<Choice(None, None, <<FragmentB1>>, None)>>),
     Chunk(None, <<Choice(None, None, <<FragmentX0>>, None)>>),
     Chunk(None, <<FinishChoice("stop")>>),
     Chunk(Some(Usage), <<Choice(None, Some(<<"hi">>), <<>>, Some("length"))>>),
     Chunk(None, <<FinishChoice("tool_calls")>>),
     Chunk(None, <<FinishChoice("content_filter")>>),
     Chunk(None, <<FinishChoice("tool_calls"), FinishChoice("stop")>>),
     Chunk(None, <<FinishChoice("stop"), FinishChoice("end_turn")>>)}

\* ---- the decoder reading one stream (SpecChat)
\* Ok(Some(Ok(sse))): a frame arrives and is processed.
ChatFrame ==
    /\ ~chat.returned
    /\ chat.event_count < MaxFrames
    /\ \E frame \in ChatFrames : chat' = ProcessFrame(chat, frame)
    /\ UNCHANGED order

\* Ok(Some(Err(e))): the transport fails.
ChatTransportError ==
    /\ ~chat.returned
    /\ chat' = [Send(chat, StreamError("transport")) EXCEPT !.returned = TRUE]
    /\ UNCHANGED order

\* Ok(None): the stream ends.
ChatStreamEnd ==
    /\ ~chat.returned
    /\ chat' = FlushAndComplete(chat)
    /\ UNCHANGED order

\* Err(_): nothing arrived within idle_timeout.
ChatIdleTimeout ==
    /\ ~chat.returned
    /\ chat' = [Send(chat, StreamError("idle timeout waiting for SSE"))
                    EXCEPT !.returned = TRUE]
    /\ UNCHANGED order

\* ---- the decoder reading two orders of the same fragments (SpecOrder)
SeqsUpTo(S, n) == UNION {[1..k -> S] : k \in 0..n}

Reorderings(s) ==
    {[i \in 1..Len(s) |-> s[p[i]]] : p \in Permutations(1..Len(s))}

OrderIdle ==
    [streamA |-> <<>>, streamB |-> <<>>, decA |-> NewDecoder, decB |-> NewDecoder]

FragmentFrame(fragment) == Chunk(None, <<Choice(None, None, <<fragment>>, None)>>)

\* Both decoders read the next fragment of their stream.
OrderFragment ==
    /\ order.decA.event_count < Len(order.streamA)
    /\ order' = [order EXCEPT
          !.decA = ProcessFrame(@, FragmentFrame(order.streamA[@.event_count + 1])),
          !.decB = ProcessFrame(@, FragmentFrame(order.streamB[@.event_count + 1]))]
    /\ UNCHANGED chat

\* Both decoders read the chunk whose finish_reason is tool_calls.
OrderFinish ==
    /\ order.decA.event_count = Len(order.streamA)
    /\ order' = [order EXCEPT
          !.decA = ProcessFrame(@, Chunk(None, <<FinishChoice("tool_calls")>>)),
          !.decB = ProcessFrame(@, Chunk(None, <<FinishChoice("tool_calls")>>))]
    /\ UNCHANGED chat

\* Both streams end.
OrderStreamEnd ==
    /\ order.decA.event_count = Len(order.streamA) + 1
    /\ ~order.decA.returned
    /\ order' = [order EXCEPT !.decA = FlushAndComplete(@),
                              !.decB = FlushAndComplete(@)]
    /\ UNCHANGED chat

ChatInit ==
    /\ chat = NewDecoder
    /\ order = OrderIdle

OrderStreams ==
    /\ chat = NewDecoder
    /\ \E streamA \in SeqsUpTo(ToolCallFragments, MaxFragments) :
         \E streamB \in Reorderings(streamA) :
            order = [OrderIdle EXCEPT !.streamA = streamA, !.streamB = streamB]

(***************************************************************************)
(* Shell approval: core/src/tools/handlers/shell.rs (run_exec_like) and    *)
(* core/src/tools/runtimes/shell.rs (approval_key, start_approval_async).  *)
(*                                                                         *)
(* ToolOrchestrator::run, with_cached_approval and                         *)
(* create_exec_approval_requirement_for_command are in tools/orchestrator  *)
(* and tools/sandboxing, which are not among the source files; they follow *)
(* the state machine of the Approval and Sandbox Orchestrator: a cache hit *)
(* skips the prompt, Approve caches the key, a sandbox denial is retried   *)
(* without sandbox under the approval already given.                       *)
(***************************************************************************)
\* ---- bounds of the approval model
MaxDispatches == 3
MaxTurns == 2

ApprovalPolicies == {"UnlessTrusted", "OnFailure", "OnRequest", "Never"}

ExecParams(command, cwd, sandbox_permissions, justification, timeout_ms) ==
    [command |-> command, cwd |-> cwd, sandbox_permissions |-> sandbox_permissions,
     justification |-> justification, timeout_ms |-> timeout_ms]

\* The shell calls the model emits.
ShellCalls ==
    {ExecParams(<<"rm", "-rf", "tmp">>, ".", "UseDefault", None, None),
     ExecParams(<<"rm", "-rf", "tmp">>, ".", "UseDefault", Some("cleanup"), Some(1000)),
     ExecParams(<<"rm", "-rf", "tmp">>, "/srv", "UseDefault", None, None),
     ExecParams(<<"rm", "-rf", "tmp">>, ".", "RequireEscalated", Some("cleanup"), None),
     ExecParams(<<"ls">>, ".", "UseDefault", None, None)}

\* let req = ShellRequest { ... } in run_exec_like
ShellRequest(exec_params, exec_approval_requirement) ==
    [command |-> exec_params.command,
     cwd |-> exec_params.cwd,
     timeout_ms |-> exec_params.timeout_ms,
     with_escalated_permissions |->
         Some(exec_params.sandbox_permissions = "RequireEscalated"),
     justification |-> exec_params.justification,
     exec_approval_requirement |-> exec_approval_requirement]

\* A variant of the key that also holds the justification.
approval_key_with_justification(req) ==
    [command |-> req.command,
     cwd |-> req.cwd,
     escalated |-> IF req.with_escalated_permissions = None THEN FALSE
                   ELSE Unwrap(req.with_escalated_permissions),
     justification |-> req.justification]

\* ShellRuntime::approval_key
approval_key(req) ==
    [command |-> req.command,
     cwd |-> req.cwd,
     escalated |-> IF req.with_escalated_permissions = None THEN FALSE
                   ELSE Unwrap(req.with_escalated_permissions)]

\* with_cached_approval(services, key, fetch): the decision, whether the user
\* was prompted, and the cache afterwards.  `answer` is what the user replies
\* if asked.
with_cached_approval(cache, key, answer) ==
    IF key \in cache
    THEN [decision |-> "Approved", prompted |-> FALSE, cache |-> cache]
    ELSE [decision |-> answer, prompted |-> TRUE,
          cache |-> IF answer = "Approved" THEN cache \cup {key} ELSE cache]

\* ToolOrchestrator::run for a shell request: approval, then the sandboxed
\* attempt, then the retry without sandbox when the sandbox denied it.
OrchestratorRun(cache, req, answer, sandbox_denied) ==
    LET approval ==
            IF req.exec_approval_requirement = "RequireApproval"
            THEN with_cached_approval(cache, approval_key(req), answer)
            ELSE [decision |-> req.exec_approval_requirement,
                  prompted |-> FALSE, cache |-> cache]
        result == IF approval.decision = "Denied" THEN "user rejected"
                  ELSE IF sandbox_denied THEN "executed without sandbox"
                  ELSE "executed"
    IN [result |-> result, prompted |-> approval.prompted, cache |-> approval.cache,
        cache_hit |-> req.exec_approval_requirement = "RequireApproval"
                         /\ ~approval.prompted]

\* What the claim calls the key of a shell call: (argv, cwd, escalated).
RequestKey(exec_params) ==
    <<exec_params.command, exec_params.cwd,
      exec_params.sandbox_permissions = "RequireEscalated">>

ShellInit ==
    shell = [approval_cache |-> {},
             approved |-> {},
             approval_policy |-> "OnRequest",
             dispatches |-> 0,
             turns |-> 1,
             last |-> None]

\* A variant of the guard that rejects escalation only when the user is
\* never asked.
escalation_rejected_under_never(exec_params, approval_policy) ==
    /\ exec_params.sandbox_permissions = "RequireEscalated"
    /\ approval_policy = "Never"

\* The approval policy guard at the head of run_exec_like.
escalation_rejected(exec_params, approval_policy) ==
    /\ exec_params.sandbox_permissions = "RequireEscalated"
    /\ approval_policy # "OnRequest"

\* ShellHandler::run_exec_like for one shell call of the model.
run_exec_like ==
    /\ shell.dispatches < MaxDispatches
    /\ \E exec_params \in ShellCalls,
          exec_approval_requirement \in {"RequireApproval", "Skip", "AutoApprove"},
          answer \in {"Approved", "Denied"},
          sandbox_denied \in BOOLEAN :
         IF escalation_rejected(exec_params, shell.approval_policy)
         THEN shell' = [shell EXCEPT
                  !.dispatches = @ + 1,
                  !.last = Some([exec_params |-> exec_params, prompted |-> FALSE,
                                 cache_hit |-> FALSE,
                                 result |-> "Err(RespondToModel)"])]
         ELSE LET out == OrchestratorRun(
                             shell.approval_cache,
                             ShellRequest(exec_params, exec_approval_requirement),
                             answer, sandbox_denied)
              IN shell' = [shell EXCEPT
                     !.dispatches = @ + 1,
                     !.approval_cache = out.cache,
                     !.approved = IF out.prompted /\ answer = "Approved"
                                  THEN @ \cup {RequestKey(exec_params)} ELSE @,
                     !.last = Some([exec_params |-> exec_params,
                                    prompted |-> out.prompted,
                                    cache_hit |-> out.cache_hit,
                                    result |-> out.result])]

\* The next turn of the conversation starts, under some approval policy.
NewTurn ==
    /\ shell.turns < MaxTurns
    /\ \E approval_policy \in ApprovalPolicies :
         shell' = [shell EXCEPT !.turns = @ + 1, !.approval_policy = approval_policy]

(***************************************************************************)
(* The tool router: core/src/tools/router.rs                               *)
(***************************************************************************)
\* ---- bound of the router model
MaxToolCalls == 2

ToolPayloadKinds == {"Function", "Custom", "LocalShell", "Mcp"}

ToolCall(tool_name, call_id, payload) ==
    [tool_name |-> tool_name, call_id |-> call_id, payload |-> payload]

ToolCalls == {ToolCall("tool", call_id, payload) :
                  call_id \in {"call-1", "call-2"}, payload \in ToolPayloadKinds}

\* ResponseInputItem::FunctionCallOutput and ::CustomToolCallOutput
InputFunctionCallOutput(call_id, content, success) ==
    [type |-> "FunctionCallOutput", call_id |-> call_id,
     content |-> content, success |-> success]
InputCustomToolCallOutput(call_id, output) ==
    [type |-> "CustomToolCallOutput", call_id |-> call_id, output |-> output]

\* FunctionCallError
RespondToModel(message) == [error |-> "RespondToModel", message |-> message]
MissingLocalShellCallId == [error |-> "MissingLocalShellCallId", message |-> ""]
Fatal(message) == [error |-> "Fatal", message |-> message]

\* err.to_string(): the Display text of a FunctionCallError
ErrorToString(err) ==
    CASE err.error = "RespondToModel" -> err.message
      [] err.error = "MissingLocalShellCallId" -> "LocalShellCall without call_id or id"
      [] OTHER -> "Fatal error: " \o err.message

Ok(value) == [ok |-> TRUE, value |-> value]
Err(error) == [ok |-> FALSE, error |-> error]

\* What self.registry.dispatch(invocation) may return for a call.
HandlerResults(call) ==
    {Ok(IF call.payload = "Custom"
        THEN InputCustomToolCallOutput(call.call_id, "done")
        ELSE InputFunctionCallOutput(call.call_id, "done", Some(TRUE))),
     Err(RespondToModel("failed to parse function arguments")),
     Err(RespondToModel("")),
     Err(MissingLocalShellCallId),
     Err(Fatal("tool task was cancelled"))}

\* A variant that answers every failure with a FunctionCallOutput.
failure_response_as_function(call_id, payload_outputs_custom, err) ==
    InputFunctionCallOutput(call_id, ErrorToString(err), Some(FALSE))

\* ToolRouter::failure_response
failure_response(call_id, payload_outputs_custom, err) ==
    IF payload_outputs_custom
    THEN InputCustomToolCallOutput(call_id, ErrorToString(err))
    ELSE InputFunctionCallOutput(call_id, ErrorToString(err), Some(FALSE))

\* ToolRouter::dispatch_tool_call, given what the handler returned.
dispatch_tool_call(call, handler_result) ==
    LET payload_outputs_custom == call.payload = "Custom"
        failure_call_id == call.call_id
    IN IF handler_result.ok THEN Ok(handler_result.value)
       ELSE IF handler_result.error.error = "Fatal"
       THEN Err(Fatal(handler_result.error.message))
       ELSE Ok(failure_response(failure_call_id, payload_outputs_custom,
                                handler_result.error))

RouterInit == router = <<>>

\* One tool call of the turn is dispatched; the handler answers.
DispatchToolCall ==
    /\ Len(router) < MaxToolCalls
    /\ \E call \in ToolCalls :
         \E handler_result \in HandlerResults(call) :
            router' = Append(router,
                             [call |-> call,
                              handler_result |-> handler_result,
                              result |-> dispatch_tool_call(call, handler_result)])

(***************************************************************************)
(* The 401 loop of ModelClient::stream_chat_completions and                *)
(* ModelClient::stream_responses_api: core/src/client.rs                   *)
(***************************************************************************)
\* ---- bound of the client model
MaxStreamRequests == 3

AuthModes == {"ApiKey", "ChatGPT"}

\* A variant that forgets that a refresh was already done.
handle_unauthorized_again(refreshed, has_manager, auth, refresh_result) ==
    IF has_manager /\ auth = Some("ChatGPT")
    THEN [refresh_called |-> TRUE,
          refreshed |-> refresh_result = "Ok",
          result |-> CASE refresh_result = "Ok" -> "Ok"
                       [] refresh_result = "Permanent" -> "Err(RefreshTokenFailed)"
                       [] OTHER -> "Err(Io)"]
    ELSE [refresh_called |-> FALSE, refreshed |-> refreshed,
          result |-> "Err(Unauthorized)"]

\* handle_unauthorized: whether refresh_token was called, the flag afterwards,
\* and the result.  refresh_result is what refresh_token returns if called.
handle_unauthorized(refreshed, has_manager, auth, refresh_result) ==
    IF refreshed
    THEN [refresh_called |-> FALSE, refreshed |-> refreshed,
          result |-> "Err(Unauthorized)"]
    ELSE IF has_manager /\ auth = Some("ChatGPT")
    THEN [refresh_called |-> TRUE,
          refreshed |-> refresh_result = "Ok",
          result |-> CASE refresh_result = "Ok" -> "Ok"
                       [] refresh_result = "Permanent" -> "Err(RefreshTokenFailed)"
                       [] OTHER -> "Err(Io)"]
    ELSE [refresh_called |-> FALSE, refreshed |-> refreshed,
          result |-> "Err(Unauthorized)"]

ClientIdle ==
    [pc |-> "idle", wire_api |-> "", has_manager |-> FALSE, auth |-> None,
     refreshed |-> FALSE, attempts |-> 0, unauthorized |-> 0, refreshes |-> 0, refresh_modes |-> {},
     result |-> None, requests |-> 0]

ClientInit == client = ClientIdle

\* stream_chat_completions or stream_responses_api is called: let mut refreshed = false
StartStream ==
    /\ client.pc # "loop"
    /\ client.requests < MaxStreamRequests
    /\ \E wire_api \in {"chat", "responses"}, has_manager \in BOOLEAN :
         client' = [ClientIdle EXCEPT !.pc = "loop", !.wire_api = wire_api,
                                      !.has_manager = has_manager,
                                      !.requests = client.requests + 1]

\* The provider or the auth provider cannot be built: `?` leaves the loop.
StreamSetupFails ==
    /\ client.pc = "loop"
    /\ client' = [client EXCEPT !.pc = "returned", !.result = Some("Err(setup)")]

\* One pass of the loop: auth is read again, the request is sent, and the
\* answer is a stream, a 401, or another error.
StreamAttempt ==
    /\ client.pc = "loop"
    /\ \E auth \in {None} \cup (IF client.has_manager
                                THEN {Some(m) : m \in AuthModes} ELSE {}),
          stream_result \in {"Ok", "Unauthorized", "Err"},
          refresh_result \in {"Ok", "Permanent", "Transient"} :
         LET sent == [client EXCEPT !.attempts = @ + 1, !.auth = auth]
             handled == handle_unauthorized(client.refreshed, client.has_manager,
                                            auth, refresh_result)
         IN client' =
              CASE stream_result = "Ok" ->
                     [sent EXCEPT !.pc = "returned", !.result = Some("Ok(stream)")]
                [] stream_result = "Err" ->
                     [sent EXCEPT !.pc = "returned", !.result = Some("Err(api)")]
                [] OTHER ->
                     [sent EXCEPT
                        !.unauthorized = @ + 1,
                        !.refreshes = IF handled.refresh_called THEN @ + 1 ELSE @,
                        !.refresh_modes = IF handled.refresh_called
                                          THEN @ \cup auth ELSE @,
                        !.refreshed = handled.refreshed,
                        !.pc = IF handled.result = "Ok" THEN "loop" ELSE "returned",
                        !.result = IF handled.result = "Ok" THEN None
                                   ELSE Some(handled.result)]

(***************************************************************************)
(* Turn signing: codex-api/src/turn_signing.rs                             *)
(*                                                                         *)
(* HMAC-SHA256 and the hex encoding are modelled as one injective function *)
(* of the signed message (no two messages share a MAC); the message is the *)
(* string format! builds.  Timestamps are u64 seconds; they stay far below *)
(* 2^64 - 300 here, where timestamp + 300 cannot wrap.                     *)
(***************************************************************************)
SIGNATURE_VALIDITY_SECONDS == 300
FUTURE_SKEW_SECONDS == 60

\* ---- bounds of the signing model
MaxSignatures == 1

ConversationIds == {"conv", "conv:user"}
\* Readings of SystemTime::now(), as seconds since the epoch.
Times == {39, 40, 100, 160, 161, 400, 401}

turn_value(is_user_turn) == IF is_user_turn THEN "user" ELSE "system"

\* A variant that leaves the turn out of the signed message.
SignedMessageNoTurn(conversation_id, is_user_turn, timestamp) ==
    conversation_id \o ":" \o ToString(timestamp)

\* format!("{conversation_id}:{turn_str}:{timestamp}")
SignedMessage(conversation_id, is_user_turn, timestamp) ==
    conversation_id \o ":" \o turn_value(is_user_turn) \o ":" \o ToString(timestamp)

compute_signature(conversation_id, is_user_turn, timestamp) ==
    "hmac(" \o SignedMessage(conversation_id, is_user_turn, timestamp) \o ")"

\* a.len() == b.len() and no byte differs
constant_time_compare(a, b) == IF Len(a) # Len(b) THEN FALSE ELSE a = b

\* A variant with no tolerance for a signer's clock ahead of the verifier's.
verify_signature_no_skew(conversation_id, is_user_turn, timestamp, signature, now) ==
    IF now > timestamp + SIGNATURE_VALIDITY_SECONDS THEN "Err(Signature expired)"
    ELSE IF timestamp > now THEN "Err(Timestamp in future)"
    ELSE IF constant_time_compare(
                compute_signature(conversation_id, is_user_turn, timestamp), signature)
    THEN "Ok"
    ELSE "Err(Invalid signature)"

\* verify_signature, with the clock reading `now` as a parameter.
verify_signature(conversation_id, is_user_turn, timestamp, signature, now) ==
    IF now > timestamp + SIGNATURE_VALIDITY_SECONDS THEN "Err(Signature expired)"
    ELSE IF timestamp > now + FUTURE_SKEW_SECONDS THEN "Err(Timestamp in future)"
    ELSE IF constant_time_compare(
                compute_signature(conversation_id, is_user_turn, timestamp), signature)
    THEN "Ok"
    ELSE "Err(Invalid signature)"

\* TurnSignature::sign(conversation_id, is_user_turn) at clock reading timestamp.
sign ==
    /\ verification = None
    /\ Cardinality(signatures) < MaxSignatures
    /\ \E conversation_id \in ConversationIds, is_user_turn \in BOOLEAN, timestamp \in Times :
          signatures' = signatures \cup
              {[conversation_id |-> conversation_id,
                is_user_turn |-> is_user_turn,
                timestamp |-> timestamp,
                signature |-> compute_signature(conversation_id, is_user_turn, timestamp)]}
    /\ UNCHANGED verification

\* What a caller may present as the signature: one that sign produced, or junk.
PresentedSignatures == {sig.signature : sig \in signatures} \cup {"invalid"}

\* One call of verify_signature, at clock reading now.
Verify ==
    /\ verification = None
    /\ signatures # {}
    /\ \E conversation_id \in ConversationIds, is_user_turn \in BOOLEAN, timestamp \in Times,
          signature \in PresentedSignatures, now \in Times :
          verification' = Some(
              [conversation_id |-> conversation_id,
               is_user_turn |-> is_user_turn,
               timestamp |-> timestamp,
               signature |-> signature,
               now |-> now,
               result |-> verify_signature(conversation_id, is_user_turn, timestamp,
                                           signature, now)])
    /\ UNCHANGED signatures

SignInit ==
    /\ signatures = {}
    /\ verification = None

(***************************************************************************)
(* Unified exec: core/src/unified_exec/session_manager.rs                  *)
(*                                                                         *)
(* exec.sessions is the table (session id -> SessionEntry); exec.exited is *)
(* the set of session ids whose process has exited (the flag has_exited()  *)
(* reads); exec.reported is the set of ids for which a write_stdin has     *)
(* returned the final response (session_id: None); exec.ended counts the   *)
(* ExecCommandEnd events sent, per event.  write_stdin locks the           *)
(* table twice, in prepare_session_handles and in refresh_session_state,   *)
(* and awaits the yield window in between, so it is two steps.             *)
(***************************************************************************)
MAX_UNIFIED_EXEC_SESSIONS == 64

MaxExecCalls == 2
MaxWriteCalls == 2

\* Commands whose process ends by itself or on input, and one that never
\* ends within a run.
ExecCommands == {"sh", "server"}

SessionEntry(command, call_id) == [command |-> command, call_id |-> call_id]

UnifiedExecResponse(event_call_id, session_id, exit_code) ==
    [event_call_id |-> event_call_id, session_id |-> session_id, exit_code |-> exit_code]

UnknownSessionId(session_id) == [error |-> "UnknownSessionId", session_id |-> session_id]
WriteToStdin == [error |-> "WriteToStdin"]
CreateSession == [error |-> "CreateSession"]
Other(message) == [error |-> "Other", message |-> message]

ExecCommandEnd(call_id, exit_code) ==
    [event |-> "ExecCommandEnd", call_id |-> call_id, exit_code |-> exit_code]

\* result.session_id.parse().ok(): the bridge's session id is a string.
ParseI32(s) ==
    CASE s = "0" -> Some(0)
      [] s = "1" -> Some(1)
      [] OTHER -> None

\* next_session_id.fetch_add(1); sessions.insert(session_id, entry)
store_session(e, entry) ==
    LET session_id == e.next_session_id
    IN [e EXCEPT !.sessions = (session_id :> entry) @@ @,
                 !.next_session_id = @ + 1]

\* A variant that leaves the entry of an exited session in the table.
refresh_session_state_keeping(e, session_id, exit_code) ==
    IF session_id \notin DOMAIN e.sessions
    THEN [status |-> "Unknown", exit_code |-> None, call_id |-> "", sessions |-> e.sessions]
    ELSE [status |-> IF session_id \in e.exited THEN "Exited" ELSE "Alive",
          exit_code |-> exit_code,
          call_id |-> e.sessions[session_id].call_id,
          sessions |-> e.sessions]

\* The status of a session and the table afterwards; exit_code is what
\* entry.session.exit_code() returned.
refresh_session_state(e, session_id, exit_code) ==
    IF session_id \notin DOMAIN e.sessions
    THEN [status |-> "Unknown", exit_code |-> None, call_id |-> "", sessions |-> e.sessions]
    ELSE IF session_id \in e.exited
    THEN [status |-> "Exited", exit_code |-> exit_code,
          call_id |-> e.sessions[session_id].call_id,
          sessions |-> [i \in (DOMAIN e.sessions) \ {session_id} |-> e.sessions[i]]]
    ELSE [status |-> "Alive", exit_code |-> exit_code,
          call_id |-> e.sessions[session_id].call_id,
          sessions |-> e.sessions]

\* Ok(handles) or Err(UnknownSessionId)
prepare_session_handles(e, session_id) == session_id \in DOMAIN e.sessions

NewManager(first_id, sessions) ==
    [sessions |-> sessions,
     next_session_id |-> first_id,
     first_id |-> first_id,
     exited |-> {},
     reported |-> {},
     calls |-> 0,
     response |-> None,
     writes |-> <<>>,
     ended |-> <<>>]

CallId(e) == "call-" \o ToString(e.calls)

\* The ExecCommandEnd events sent so far, counted per event.
Emit(ended, event) ==
    IF event \in DOMAIN ended
    THEN [ended EXCEPT ![event] = @ + 1]
    ELSE (event :> 1) @@ ended

\* exec_command_default: opened is whether open_session_with_sandbox returned
\* a session, has_exited and exit_code are what the session reports after the
\* yield window.
exec_command_default(e, command, opened, has_exited, exit_code) ==
    IF ~opened THEN [e EXCEPT !.response = Some(Err(CreateSession))]
    ELSE IF has_exited
    THEN [e EXCEPT
            !.response = Some(Ok(UnifiedExecResponse(CallId(e), None, exit_code))),
            !.ended = Emit(@, ExecCommandEnd(CallId(e),
                                   IF exit_code = None THEN -1 ELSE Unwrap(exit_code)))]
    ELSE [store_session(e, SessionEntry(command, CallId(e))) EXCEPT
            !.response = Some(Ok(UnifiedExecResponse(
                                     CallId(e), Some(e.next_session_id), None)))]

\* What the PTY bridge is for a call: not configured, configured but not
\* available, or available and answering with Ok(result) or Err(text).
PtyBridges == {"none", "unavailable", "available"}

PtyServiceResult(session_id, exit_code) == [session_id |-> session_id, exit_code |-> exit_code]

BridgeResults ==
    {Ok(PtyServiceResult("0", Some(0))), Ok(PtyServiceResult("pty-1", None)),
     Err("bridge failed")}

exec_command_pty_service(e, bridge, result, command, opened, has_exited, exit_code) ==
    CASE bridge = "none" ->
            [e EXCEPT !.response = Some(Err(Other("PtyService bridge not configured")))]
      [] bridge = "unavailable" ->
            exec_command_default(e, command, opened, has_exited, exit_code)
      [] OTHER ->
            IF result.ok
            THEN [e EXCEPT !.response = Some(Ok(UnifiedExecResponse(
                                CallId(e), ParseI32(result.value.session_id),
                                result.value.exit_code)))]
            ELSE [e EXCEPT !.response = Some(Err(Other(result.error)))]

ExecutionBackends == {"Default", "PtyService"}

\* exec_command with a request that names its backend (select_backend, rule 1).
exec_command(e, backend, bridge, result, command, opened, has_exited, exit_code) ==
    IF backend = "Default"
    THEN exec_command_default(e, command, opened, has_exited, exit_code)
    ELSE exec_command_pty_service(e, bridge, result, command, opened, has_exited, exit_code)

\* UnifiedExecHandler::handle, the exec_command arm: the request names the
\* PtyService backend, and once the manager has returned Ok the handler sends
\* an ExecCommandEnd for the call.
handle_exec_command(e, bridge, result, command, opened, has_exited, exit_code) ==
    LET returned == exec_command(e, "PtyService", bridge, result, command, opened,
                                 has_exited, exit_code)
        response == Unwrap(returned.response)
    IN IF ~response.ok THEN returned
       ELSE [returned EXCEPT
               !.ended = Emit(@, ExecCommandEnd(response.value.event_call_id,
                                     IF response.value.exit_code = None THEN 0
                                     ELSE Unwrap(response.value.exit_code)))]

ExitCodes == {None, Some(0)}

\* One exec_command call, made through the tool handler or on the manager.
ExecCommand ==
    /\ exec.calls < MaxExecCalls
    /\ \E backend \in ExecutionBackends, bridge \in PtyBridges, result \in BridgeResults,
          command \in ExecCommands, opened \in BOOLEAN, has_exited \in BOOLEAN,
          exit_code \in ExitCodes, through_handler \in BOOLEAN :
          /\ through_handler => backend = "PtyService"
          /\ has_exited \/ exit_code = None
          /\ command = "server" => ~has_exited
          \* inputs the chosen path never reads are fixed
          /\ (backend = "PtyService" /\ bridge = "available")
                \/ result = Err("bridge failed")
          /\ (backend = "Default" \/ bridge = "unavailable")
                \/ (command = "sh" /\ opened /\ ~has_exited)
          /\ backend = "PtyService" \/ bridge = "none"
          /\ opened \/ (command = "sh" /\ ~has_exited)
          /\ exec' = [(IF through_handler
                        THEN handle_exec_command(exec, bridge, result, command, opened,
                                                 has_exited, exit_code)
                        ELSE exec_command(exec, backend, bridge, result, command, opened,
                                          has_exited, exit_code))
                         EXCEPT !.calls = @ + 1]

\* The process of a stored session exits.
ProcessExit ==
    \E session_id \in DOMAIN exec.sessions :
        /\ session_id \notin exec.exited
        /\ exec.sessions[session_id].command # "server"
        /\ exec' = [exec EXCEPT !.exited = @ \cup {session_id}]

\* The session ids a write_stdin of the model names: those handed out in
\* the run and the one after them, which is never handed out.
WriteTargets(e) == e.first_id .. (e.first_id + MaxExecCalls)

WriteCall(session_id, pc, after_exit, after_report, result) ==
    [session_id |-> session_id, pc |-> pc,
     after_exit |-> after_exit, after_report |-> after_report, result |-> result]

\* write_stdin up to the yield window: prepare_session_handles and send_input.
\* sent is whether the writer channel took the input.
WriteStdinBegin ==
    /\ Len(exec.writes) < MaxWriteCalls
    /\ \E session_id \in WriteTargets(exec), input \in {"", "x"}, sent \in BOOLEAN :
          LET after_exit == session_id \in exec.exited
              after_report == session_id \in exec.reported
              call(pc, result) ==
                  WriteCall(session_id, pc, after_exit, after_report, result)
          IN /\ sent \/ (input # "" /\ after_exit)
             /\ exec' = [exec EXCEPT !.writes = Append(@,
                    IF ~prepare_session_handles(exec, session_id)
                    THEN call("done", Err(UnknownSessionId(session_id)))
                    ELSE IF input # "" /\ ~sent
                    THEN call("done", Err(WriteToStdin))
                    ELSE call("collect", None))]

\* write_stdin after the yield window: refresh_session_state and the response.
WriteStdinEnd ==
    \E i \in 1..Len(exec.writes), exit_code \in ExitCodes :
        LET write == exec.writes[i]
            status == refresh_session_state(exec, write.session_id, exit_code)
            done(result) == [write EXCEPT !.pc = "done", !.result = result]
        IN /\ write.pc = "collect"
           /\ exit_code = None \/ write.session_id \in exec.exited
           /\ exec' =
                CASE status.status = "Unknown" ->
                        [exec EXCEPT !.writes[i] =
                                        done(Err(UnknownSessionId(write.session_id)))]
                  [] status.status = "Alive" ->
                        [exec EXCEPT !.writes[i] =
                            done(Ok(UnifiedExecResponse(status.call_id,
                                        Some(write.session_id), status.exit_code)))]
                  [] OTHER ->
                        [exec EXCEPT
                            !.sessions = status.sessions,
                            !.reported = @ \cup {write.session_id},
                            !.writes[i] =
                                done(Ok(UnifiedExecResponse(status.call_id, None,
                                                            status.exit_code))),
                            !.ended = IF status.exit_code # None
                                      THEN Emit(@, ExecCommandEnd(status.call_id,
                                                       Unwrap(status.exit_code)))
                                      ELSE @]

ExecInit == exec = NewManager(0, <<>>)

\* The manager after MAX_UNIFIED_EXEC_SESSIONS - 1 exec_command calls whose
\* processes are still running.
ExecFullSessions ==
    [session_id \in 0..(MAX_UNIFIED_EXEC_SESSIONS - 2) |->
        SessionEntry("server", "call-full")]

ExecFullInit ==
    exec = NewManager(MAX_UNIFIED_EXEC_SESSIONS - 1, ExecFullSessions)

(***************************************************************************)
(* The Responses SSE decoder: codex-api/src/sse/responses.rs               *)
(*                                                                         *)
(* The locals of process_sse are the fields of one record, tx_event is the *)
(* sequence of everything sent on the channel.  The receiver is taken to   *)
(* stay alive, so no send fails.  failed remembers the last                *)
(* response.failed event that carried a response: how many events had been *)
(* sent when it was read, and the error recorded for it.                   *)
(***************************************************************************)
MaxSseEvents == 3

SseEvent(kind, response, item, delta, summary_index, content_index) ==
    [kind |-> kind, response |-> response, item |-> item, delta |-> delta,
     summary_index |-> summary_index, content_index |-> content_index]

\* The `response` value of an event: the fields process_sse reads from it.
ResponseValue(id, usage, error) == [id |-> id, usage |-> usage, error |-> error]

\* struct Error; retry_after is what rate_limit_regex captures in message.
ErrorValue(code, message, retry_after) ==
    [code |-> code, message |-> message, retry_after |-> retry_after]

Created == [event |-> "Created"]
ResponseCompletedEvent(response_id, token_usage) ==
    [event |-> "Completed", response_id |-> response_id, token_usage |-> token_usage]
ReasoningSummaryDelta(delta, summary_index) ==
    [event |-> "ReasoningSummaryDelta", delta |-> delta, summary_index |-> summary_index]
ReasoningTextDelta(delta, content_index) ==
    [event |-> "ReasoningContentDelta", delta |-> delta, content_index |-> content_index]
ReasoningSummaryPartAdded(summary_index) ==
    [event |-> "ReasoningSummaryPartAdded", summary_index |-> summary_index]

ContextWindowExceeded == [event |-> "Err", error |-> "ContextWindowExceeded"]
QuotaExceeded == [event |-> "Err", error |-> "QuotaExceeded"]
UsageNotIncluded == [event |-> "Err", error |-> "UsageNotIncluded"]
Retryable(message, delay) ==
    [event |-> "Err", error |-> "Retryable", message |-> message, delay |-> delay]

\* The delay is read only for rate_limit_exceeded, from "try again in <n><unit>".
try_parse_retry_after(err) ==
    IF err.code # Some("rate_limit_exceeded") THEN None
    ELSE IF err.retry_after = None THEN None
    ELSE LET value == Unwrap(err.retry_after)[1]
             unit == Unwrap(err.retry_after)[2]
         IN IF unit \in {"s", "second", "seconds"} THEN Some(<<value, "s">>)
            ELSE IF unit = "ms" THEN Some(<<value, "ms">>)
            ELSE None

\* The error recorded for a response.failed event that carries a response.
ResponseFailedError(resp_val) ==
    IF resp_val.error = None THEN StreamError("response.failed event received")
    ELSE LET error == Unwrap(resp_val.error)
         IN CASE error.code = Some("context_length_exceeded") -> ContextWindowExceeded
              [] error.code = Some("insufficient_quota") -> QuotaExceeded
              [] error.code = Some("usage_not_included") -> UsageNotIncluded
              [] OTHER -> Retryable(IF error.message = None THEN ""
                                    ELSE Unwrap(error.message),
                                    try_parse_retry_after(error))

NewSseDecoder ==
    [response_completed |-> None,
     response_error |-> None,
     event_count |-> 0,
     tx_event |-> <<>>,
     returned |-> FALSE,
     failed |-> None]

\* A variant of the end of the stream that completes the turn with an empty
\* response id when no response.completed was captured.
StreamClosedCompleting(d) ==
    [Send(d, IF d.response_completed # None
             THEN ResponseCompletedEvent(Unwrap(d.response_completed).id,
                                         Unwrap(d.response_completed).usage)
             ELSE ResponseCompletedEvent("", None))
        EXCEPT !.response_completed = None, !.returned = TRUE]

\* Ok(None): the stream ends.
StreamClosed(d) ==
    [Send(d, IF d.response_completed # None
             THEN ResponseCompletedEvent(Unwrap(d.response_completed).id,
                                         Unwrap(d.response_completed).usage)
             ELSE IF d.response_error # None THEN Unwrap(d.response_error)
             ELSE StreamError("stream closed before response.completed"))
        EXCEPT !.response_completed = None, !.returned = TRUE]

\* One pass of the loop body of process_sse over an event that was read.
\* A kind of "invalid_json" stands for data that is no SseEvent; an item of
\* type "unparseable" for a value that is no ResponseItem.
ProcessSseEvent(d, event) ==
    LET counted == [d EXCEPT !.event_count = @ + 1]
        item_ok == event.item # None /\ Unwrap(event.item).type # "unparseable"
    IN CASE event.kind = "invalid_json" -> counted
         [] event.kind = "response.output_item.done" ->
                IF item_ok THEN Send(counted, OutputItemDone(Unwrap(event.item)))
                ELSE counted
         [] event.kind = "response.output_text.delta" ->
                IF event.delta # None
                THEN Send(counted, OutputTextDelta(Unwrap(event.delta)))
                ELSE counted
         [] event.kind = "response.reasoning_summary_text.delta" ->
                IF event.delta # None /\ event.summary_index # None
                THEN Send(counted, ReasoningSummaryDelta(Unwrap(event.delta),
                                                       Unwrap(event.summary_index)))
                ELSE counted
         [] event.kind = "response.reasoning_text.delta" ->
                IF event.delta # None /\ event.content_index # None
                THEN Send(counted, ReasoningTextDelta(Unwrap(event.delta),
                                                    Unwrap(event.content_index)))
                ELSE counted
         [] event.kind = "response.created" ->
                IF event.response # None THEN Send(counted, Created) ELSE counted
         [] event.kind = "response.failed" ->
                IF event.response # None
                THEN LET error == ResponseFailedError(Unwrap(event.response))
                     IN [counted EXCEPT
                           !.response_error = Some(error),
                           !.failed = Some([at |-> Len(d.tx_event), error |-> error])]
                ELSE counted
         [] event.kind = "response.completed" ->
                IF event.response = None THEN counted
                ELSE IF Unwrap(event.response).id # None
                THEN [counted EXCEPT !.response_completed =
                         Some([id |-> Unwrap(Unwrap(event.response).id),
                               usage |-> Unwrap(event.response).usage])]
                ELSE [counted EXCEPT !.response_error =
                         Some(StreamError("failed to parse ResponseCompleted"))]
         [] event.kind = "response.output_item.added" ->
                IF item_ok THEN Send(counted, OutputItemAdded(Unwrap(event.item)))
                ELSE counted
         [] event.kind = "response.reasoning_summary_part.added" ->
                IF event.summary_index # None
                THEN Send(counted, ReasoningSummaryPartAdded(Unwrap(event.summary_index)))
                ELSE counted
         [] OTHER -> counted

Failed(response) == SseEvent("response.failed", response, None, None, None, None)

\* The events a stream is made of in SpecSse.
SseEvents ==
    {SseEvent("invalid_json", None, None, None, None, None),
     SseEvent("response.output_item.done", None,
              Some(AssistantMessage(<<<<"hi">>>>)), None, None, None),
     SseEvent("response.output_item.done", None, Some([type |-> "unparseable"]),
              None, None, None),
     SseEvent("response.output_item.added", None,
              Some(AssistantMessage(<<>>)), None, None, None),
     SseEvent("response.output_text.delta", None, None, Some("hi"), None, None),
     SseEvent("response.reasoning_summary_text.delta", None, None, Some("r"), Some(0), None),
     SseEvent("response.reasoning_text.delta", None, None, Some("r"), None, None),
     SseEvent("response.reasoning_summary_part.added", None, None, None, Some(0), None),
     SseEvent("response.created", Some(ResponseValue(None, None, None)), None, None, None, None),
     Failed(None),
     Failed(Some(ResponseValue(None, None, None))),
     Failed(Some(ResponseValue(None, None,
         Some(ErrorValue(Some("context_length_exceeded"), Some("too long"), None))))),
     Failed(Some(ResponseValue(None, None,
         Some(ErrorValue(Some("rate_limit_exceeded"), Some("try again in 11s"),
                         Some(<<11, "s">>)))))),
     SseEvent("response.completed", Some(ResponseValue(Some("resp1"), Some(Usage), None)),
              None, None, None, None),
     SseEvent("response.completed", Some(ResponseValue(None, None, None)),
              None, None, None, None),
     SseEvent("response.unknown", None, None, None, None, None)}

\* Ok(Some(Ok(sse))): an event arrives and is processed.
SseEventRead ==
    /\ ~responses.returned
    /\ responses.event_count < MaxSseEvents
    /\ \E event \in SseEvents : responses' = ProcessSseEvent(responses, event)

\* Ok(Some(Err(e))): the transport fails.
SseTransportError ==
    /\ ~responses.returned
    /\ responses' = [Send(responses, StreamError("transport")) EXCEPT !.returned = TRUE]

SseStreamEnd ==
    /\ ~responses.returned
    /\ responses' = StreamClosed(responses)

\* Err(_): nothing arrived within idle_timeout.
SseIdleTimeout ==
    /\ ~responses.returned
    /\ responses' = [Send(responses, StreamError("idle timeout waiting for SSE"))
                        EXCEPT !.returned = TRUE]

SseInit == responses = NewSseDecoder

(***************************************************************************)
(* codex-api/src/requests/chat.rs: ChatRequestBuilder::build, the messages *)
(* of a Chat Completions request.  An input item is a ResponseItem with    *)
(* its id field; a message is a record with the keys the builder writes,   *)
(* a key it leaves out being None.  Texts the builder formats are kept as  *)
(* tuples of their parts.                                                  *)
(***************************************************************************)
MaxInput == 3

WithId(item, id) ==
    [type |-> item.type, role |-> item.role, call_id |-> item.call_id,
     text |-> item.text, id |-> id]

Reasoning(text) == ResponseItem("Reasoning", "", None, text)

ChatMessage(role, content, tool_calls, tool_call_id, reasoning) ==
    [role |-> role, content |-> content, tool_calls |-> tool_calls,
     tool_call_id |-> tool_call_id, reasoning |-> reasoning]

ToolCallEntry(id, name) == [id |-> id, type |-> "function", name |-> name]

NoOutputRecorded == "(No output recorded)"
\* The user message added when the messages hold none; its content is a fixed
\* request to go on.
ContinueMessage == ChatMessage("user", Some(<<"continue">>), None, None, None)

\* The call ids of the FunctionCallOutput and CustomToolCallOutput items.
call_ids_with_output(input) ==
    {Unwrap(input[i].call_id) :
        i \in {j \in 1..Len(input) :
                 input[j].type \in {"FunctionCallOutput", "CustomToolCallOutput"}}}

EmittedRole(item) ==
    CASE item.type = "Message" -> Some(item.role)
      [] item.type \in {"FunctionCall", "LocalShellCall"} -> Some("assistant")
      [] item.type = "FunctionCallOutput" -> Some("tool")
      [] OTHER -> None

last_emitted_role(input) ==
    LET emitting == {i \in 1..Len(input) : EmittedRole(input[i]) # None}
    IN IF emitting = {} THEN None
       ELSE EmittedRole(input[CHOOSE i \in emitting : \A j \in emitting : j <= i])

last_user_index(input) ==
    LET users == {i \in 1..Len(input) :
                    input[i].type = "Message" /\ input[i].role = "user"}
    IN IF users = {} THEN None
       ELSE Some(CHOOSE i \in users : \A j \in users : j <= i)

IsAssistantMessage(item) == item.type = "Message" /\ item.role = "assistant"

\* The index a Reasoning item at idx is anchored to, if any.
ReasoningAnchor(input, idx) ==
    LET u_idx == last_user_index(input)
    IN IF \/ last_emitted_role(input) = Some("user")
          \/ u_idx # None /\ idx <= Unwrap(u_idx)
          \/ input[idx].type # "Reasoning"
          \/ input[idx].text = <<>>
       THEN None
       ELSE IF idx > 1 /\ IsAssistantMessage(input[idx - 1])
       THEN Some(idx - 1)
       ELSE IF /\ idx + 1 <= Len(input)
               /\ \/ input[idx + 1].type \in {"FunctionCall", "LocalShellCall"}
                  \/ IsAssistantMessage(input[idx + 1])
       THEN Some(idx + 1)
       ELSE None

\* reasoning_by_anchor_index.get(&idx): the texts anchored to idx, in the
\* order of their Reasoning items.
reasoning_by_anchor_index(input, idx) ==
    LET before == IF idx > 1 /\ ReasoningAnchor(input, idx - 1) = Some(idx)
                  THEN input[idx - 1].text ELSE <<>>
        after == IF idx < Len(input) /\ ReasoningAnchor(input, idx + 1) = Some(idx)
                 THEN input[idx + 1].text ELSE <<>>
    IN IF before \o after = <<>> THEN None ELSE Some(before \o after)

\* call_id_str of a CustomToolCall: id.clone().unwrap_or_default()
CustomToolCallKey(item) == IF item.id = None THEN "" ELSE Unwrap(item.id)

\* call_ids_with_output.contains(call_id) of a FunctionCall
FunctionCallHasOutput(input, item) ==
    Unwrap(item.call_id) \in call_ids_with_output(input)

\* The messages one input item adds, given the last assistant text so far.
LowerItem(input, idx, last_assistant_text) ==
    LET item == input[idx]
        reasoning == reasoning_by_anchor_index(input, idx)
    IN CASE item.type = "Message" ->
              IF item.role = "assistant" /\ last_assistant_text = Some(item.text)
              THEN <<>>
              ELSE <<ChatMessage(item.role, Some(item.text), None, None,
                                 IF item.role = "assistant" THEN reasoning ELSE None)>>
         [] item.type = "FunctionCall" ->
              IF ~FunctionCallHasOutput(input, item)
              THEN <<ChatMessage("assistant",
                                 Some(<<"[Tool Call]", Unwrap(item.call_id), NoOutputRecorded>>),
                                 None, None, reasoning)>>
              ELSE <<ChatMessage("assistant", None,
                                 Some(<<ToolCallEntry(item.call_id, "FunctionCall")>>),
                                 None, reasoning)>>
         [] item.type = "LocalShellCall" ->
              <<ChatMessage("assistant", Some(<<"[Local Shell Call]">>), None, None,
                            reasoning)>>
         [] item.type = "FunctionCallOutput" ->
              <<ChatMessage("tool", Some(item.text), None, item.call_id, None)>>
         [] item.type = "CustomToolCall" ->
              IF CustomToolCallKey(item) \notin call_ids_with_output(input)
              THEN <<ChatMessage("assistant",
                                 Some(<<"[Custom Tool Call]", CustomToolCallKey(item),
                                        NoOutputRecorded>>),
                                 None, None, None)>>
              ELSE <<ChatMessage("assistant", None,
                                 Some(<<ToolCallEntry(item.id, "CustomToolCall")>>),
                                 None, None)>>
         [] item.type = "CustomToolCallOutput" ->
              <<ChatMessage("tool", Some(item.text), None, item.call_id, None)>>
         [] OTHER -> <<>>

RECURSIVE LowerFrom(_, _, _)
LowerFrom(input, idx, last_assistant_text) ==
    IF idx > Len(input) THEN <<>>
    ELSE LET item == input[idx]
             emitted == LowerItem(input, idx, last_assistant_text)
             next_text == IF IsAssistantMessage(item) THEN Some(item.text)
                          ELSE last_assistant_text
         IN emitted \o LowerFrom(input, idx + 1, next_text)

\* ChatRequestBuilder::build: body["messages"] after the system message.
build(input) ==
    LET messages == LowerFrom(input, 1, None)
        has_user_message == \E i \in 1..Len(messages) : messages[i].role = "user"
    IN IF has_user_message THEN messages ELSE Append(messages, ContinueMessage)

\* ---- the histories a request is built from
RequestItems ==
    {WithId(item, None) :
        item \in {Message("user", <<"hi">>), Message("assistant", <<"ok">>),
                  Reasoning(<<"think">>), LocalShellCall(None)}
                 \cup {FunctionCall(c) : c \in CallIds}
                 \cup {FunctionCallOutput(c, "ok") : c \in CallIds}
                 \cup {CustomToolCallOutput(c, "ok") : c \in CallIds}}
    \cup {WithId(CustomToolCall(c), id) :
            c \in CallIds, id \in {None} \cup {Some(d) : d \in CallIds}}

NewChatRequest == [input |-> <<>>, messages |-> None]

\* ChatRequestBuilder::new over a history one item longer.
ChatRequestInput ==
    /\ Len(request.input) < MaxInput
    /\ \E item \in RequestItems :
          request' = [input |-> Append(request.input, item), messages |-> None]

ChatRequestBuild ==
    /\ request.messages = None
    /\ request' = [request EXCEPT !.messages = Some(build(request.input))]

RequestInit == request = NewChatRequest

(***************************************************************************)
(* core/src/conversation_manager.rs: fork_conversation cuts the rollout    *)
(* before the nth user message.  parse_turn_item (event_mapping.rs) takes  *)
(* a Message of role user for a UserMessage unless it is a session-prefix  *)
(* message, one whose text opens with a tag the core injects.              *)
(***************************************************************************)
MaxRollout == 4
MaxNth == 2

RolloutItem(variant, item) == [variant |-> variant, item |-> item]

ENVIRONMENT_CONTEXT_OPEN_TAG == "<environment_context>"

is_session_prefix(text) == text # <<>> /\ text[1] = ENVIRONMENT_CONTEXT_OPEN_TAG

IsUserMessage(rollout_item) ==
    /\ rollout_item.variant = "ResponseItem"
    /\ Unwrap(rollout_item.item).type = "Message"
    /\ Unwrap(rollout_item.item).role = "user"
    /\ ~is_session_prefix(Unwrap(rollout_item.item).text)

New == [variant |-> "New", items |-> <<>>]
Forked(rolled) == [variant |-> "Forked", items |-> rolled]
Resumed(history) == [variant |-> "Resumed", items |-> history]

get_rollout_items(history) == history.items

\* user_positions: the indices of the user messages, in rollout order.
user_positions(rollout_items) ==
    LET is_user(i) == IsUserMessage(rollout_items[i])
        indices == [i \in 1..Len(rollout_items) |-> i]
    IN SelectSeq(indices, is_user)

\* A variant that cuts after the nth user message.
truncate_after_nth_user_message(history, n) ==
    LET rollout_items == get_rollout_items(history)
        positions == user_positions(rollout_items)
    IN IF Len(positions) <= n THEN New
       ELSE Forked(SubSeq(rollout_items, 1, positions[n + 1]))

truncate_before_nth_user_message(history, n) ==
    LET rollout_items == get_rollout_items(history)
        positions == user_positions(rollout_items)
    IN IF Len(positions) <= n THEN New
       ELSE LET cut_idx == positions[n + 1]
                rolled == SubSeq(rollout_items, 1, cut_idx - 1)
            IN IF rolled = <<>> THEN New ELSE Forked(rolled)

\* ---- the rollouts a conversation is forked from
RolloutItems ==
    {RolloutItem("ResponseItem", Some(item)) :
        item \in {Message("user", <<"hi">>), Message("assistant", <<"ok">>),
                  Message("user", <<ENVIRONMENT_CONTEXT_OPEN_TAG, "cwd">>)}}
    \cup {RolloutItem("EventMsg", None)}

NoFork == [rollout |-> <<>>, n |-> None, history |-> None]

\* The rollout at path grows by one recorded item.
RolloutRecord ==
    /\ fork.history = None
    /\ Len(fork.rollout) < MaxRollout
    /\ \E rollout_item \in RolloutItems :
          fork' = [fork EXCEPT !.rollout = Append(@, rollout_item)]

\* fork_conversation up to the history handed to the spawned conversation.
fork_conversation ==
    /\ fork.history = None
    /\ \E nth_user_message \in 0..MaxNth,
          history \in {Resumed(fork.rollout), Forked(fork.rollout)} :
          fork' = [fork EXCEPT
                     !.n = Some(nth_user_message),
                     !.history = Some(truncate_before_nth_user_message(
                                          history, nth_user_message))]

ForkInit == fork = NoFork

(***************************************************************************)
(* core/src/conversation_manager.rs and the process-wide map of            *)
(* unified_exec/mod.rs from a conversation id to the id of its connection. *)
(* Conversation ids are fresh: an id is never handed out twice.            *)
(***************************************************************************)
MaxConversations == 3
ConnectionIds == {"conn-1", "conn-2"}

NewConversationManager ==
    [conversations |-> {}, next_conversation |-> 1,
     GLOBAL_CONVERSATION_CONNECTIONS |-> <<>>, lookup |-> None]

\* guard.insert(conversation_id.to_string(), connection_id)
set_global_conversation_connection(map, conversation_id, connection_id) ==
    [c \in DOMAIN map \cup {conversation_id} |->
        IF c = conversation_id THEN connection_id ELSE map[c]]

\* guard.get(conversation_id).cloned()
get_global_conversation_connection(map, conversation_id) ==
    IF conversation_id \in DOMAIN map THEN Some(map[conversation_id]) ELSE None

\* finalize_spawn: the spawned conversation enters the manager's table.
new_conversation ==
    /\ manager.next_conversation <= MaxConversations
    /\ manager' = [manager EXCEPT
                     !.conversations = @ \cup {manager.next_conversation},
                     !.next_conversation = @ + 1,
                     !.lookup = None]

set_conversation_connection ==
    \E conversation_id \in 1..(manager.next_conversation - 1),
       connection_id \in ConnectionIds :
        manager' = [manager EXCEPT
                      !.GLOBAL_CONVERSATION_CONNECTIONS =
                          set_global_conversation_connection(
                              @, conversation_id, connection_id),
                      !.lookup = None]

\* self.conversations.write().await.remove(conversation_id)
remove_conversation ==
    \E conversation_id \in manager.conversations :
        manager' = [manager EXCEPT
                      !.conversations = @ \ {conversation_id},
                      !.lookup = None]

get_conversation_connection ==
    \E conversation_id \in 1..(manager.next_conversation - 1) :
        manager' = [manager EXCEPT
                      !.lookup = Some(
                          [conversation_id |-> conversation_id,
                           connection_id |-> get_global_conversation_connection(
                               manager.GLOBAL_CONVERSATION_CONNECTIONS,
                               conversation_id)])]

ManagerInit == manager = NewConversationManager

MoreInit == ExecInit /\ SseInit /\ RequestInit /\ ForkInit /\ ManagerInit

ToolInit == ShellInit /\ RouterInit /\ ClientInit

HistInit ==
    /\ items = <<>>
    /\ prompt_input = <<>>

SessInit ==
    /\ current_plan = None
    /\ plan_reply = None
    /\ plan_event = None
    /\ compact = CompactIdle
    /\ sess_events = <<>>

Init == HistInit /\ SessInit /\ SignInit /\ ChatInit /\ ToolInit /\ MoreInit

\* The session as update_plan calls left it before the compaction model
\* starts: any plan handle_update_plan stores (or none).
CompactPlans == PlansUpTo(MaxCompactPlanLen)

SessionInit ==
    /\ HistInit
    /\ \E plan \in CompactPlans :
          /\ current_plan = StoredPlanAfter(plan)
          /\ plan_event = Some(plan)
          /\ plan_reply = Some(PlanUpdatedReply(plan))
    /\ compact = CompactIdle
    /\ sess_events = <<>>
    /\ SignInit
    /\ ChatInit
    /\ ToolInit
    /\ MoreInit

HistoryNext ==
    \/ record_items(HistoryItems) /\ UNCHANGED <<sessVars, signVars, chatVars, toolVars, moreVars>>
    \/ BuildPrompt /\ UNCHANGED <<sessVars, signVars, chatVars, toolVars, moreVars>>

SpecHistory == Init /\ [][HistoryNext]_vars

PlanNext == handle_update_plan /\ UNCHANGED <<histVars, signVars, chatVars, toolVars, moreVars>>

SpecPlan == Init /\ [][PlanNext]_vars

SessionNext ==
    \/ record_items(SessionItems) /\ UNCHANGED <<sessVars, signVars, chatVars, toolVars, moreVars>>
    \/ CompactBegin /\ UNCHANGED <<signVars, chatVars, toolVars, moreVars>>
    \/ CompactEndpointOk /\ UNCHANGED <<signVars, chatVars, toolVars, moreVars>>
    \/ CompactEndpointErr /\ UNCHANGED <<signVars, chatVars, toolVars, moreVars>>
    \/ replace_history /\ UNCHANGED <<signVars, chatVars, toolVars, moreVars>>
    \/ CompactEmit /\ UNCHANGED <<signVars, chatVars, toolVars, moreVars>>

SpecSession == SessionInit /\ [][SessionNext]_vars

SignNext ==
    \/ sign /\ UNCHANGED <<histVars, sessVars, chatVars, toolVars, moreVars>>
    \/ Verify /\ UNCHANGED <<histVars, sessVars, chatVars, toolVars, moreVars>>

SpecSign == Init /\ [][SignNext]_vars

ChatNext ==
    \/ ChatFrame /\ UNCHANGED <<histVars, sessVars, signVars, toolVars, moreVars>>
    \/ ChatTransportError /\ UNCHANGED <<histVars, sessVars, signVars, toolVars, moreVars>>
    \/ ChatStreamEnd /\ UNCHANGED <<histVars, sessVars, signVars, toolVars, moreVars>>
    \/ ChatIdleTimeout /\ UNCHANGED <<histVars, sessVars, signVars, toolVars, moreVars>>

SpecChat == Init /\ [][ChatNext]_vars

OrderNext ==
    \/ OrderFragment /\ UNCHANGED <<histVars, sessVars, signVars, toolVars, moreVars>>
    \/ OrderFinish /\ UNCHANGED <<histVars, sessVars, signVars, toolVars, moreVars>>
    \/ OrderStreamEnd /\ UNCHANGED <<histVars, sessVars, signVars, toolVars, moreVars>>

OrderInit == HistInit /\ SessInit /\ SignInit /\ OrderStreams /\ ToolInit /\ MoreInit

SpecOrder == OrderInit /\ [][OrderNext]_vars

ShellNext ==
    \/ run_exec_like /\ UNCHANGED <<histVars, sessVars, signVars, chatVars, router, client, moreVars>>
    \/ NewTurn /\ UNCHANGED <<histVars, sessVars, signVars, chatVars, router, client, moreVars>>

SpecShell == Init /\ [][ShellNext]_vars

RouterNext ==
    DispatchToolCall /\ UNCHANGED <<histVars, sessVars, signVars, chatVars, shell, client, moreVars>>

SpecRouter == Init /\ [][RouterNext]_vars

ClientNext ==
    \/ StartStream /\ UNCHANGED <<histVars, sessVars, signVars, chatVars, shell, router, moreVars>>
    \/ StreamSetupFails /\ UNCHANGED <<histVars, sessVars, signVars, chatVars, shell, router, moreVars>>
    \/ StreamAttempt /\ UNCHANGED <<histVars, sessVars, signVars, chatVars, shell, router, moreVars>>

SpecClient == Init /\ [][ClientNext]_vars

ExecNext ==
    \/ ExecCommand /\ UNCHANGED <<histVars, sessVars, signVars, chatVars, toolVars, responses, buildVars>>
    \/ ProcessExit /\ UNCHANGED <<histVars, sessVars, signVars, chatVars, toolVars, responses, buildVars>>
    \/ WriteStdinBegin /\ UNCHANGED <<histVars, sessVars, signVars, chatVars, toolVars, responses, buildVars>>
    \/ WriteStdinEnd /\ UNCHANGED <<histVars, sessVars, signVars, chatVars, toolVars, responses, buildVars>>

SpecExec == Init /\ [][ExecNext]_vars

ExecFullStart ==
    /\ HistInit /\ SessInit /\ SignInit /\ ChatInit /\ ToolInit
    /\ ExecFullInit /\ SseInit /\ RequestInit /\ ForkInit /\ ManagerInit

SpecExecFull == ExecFullStart /\ [][ExecNext]_vars

SseNext ==
    \/ SseEventRead /\ UNCHANGED <<histVars, sessVars, signVars, chatVars, toolVars, exec, buildVars>>
    \/ SseTransportError /\ UNCHANGED <<histVars, sessVars, signVars, chatVars, toolVars, exec, buildVars>>
    \/ SseStreamEnd /\ UNCHANGED <<histVars, sessVars, signVars, chatVars, toolVars, exec, buildVars>>
    \/ SseIdleTimeout /\ UNCHANGED <<histVars, sessVars, signVars, chatVars, toolVars, exec, buildVars>>

SpecSse == Init /\ [][SseNext]_vars

\* A stream is decoded by one of the two decoders.
DecodersNext ==
    \/ responses = NewSseDecoder /\ ChatNext
    \/ chat = NewDecoder /\ SseNext

SpecDecoders == Init /\ [][DecodersNext]_vars

RequestNext ==
    \/ ChatRequestInput /\ UNCHANGED <<histVars, sessVars, signVars, chatVars, toolVars, exec, responses, fork, manager>>
    \/ ChatRequestBuild /\ UNCHANGED <<histVars, sessVars, signVars, chatVars, toolVars, exec, responses, fork, manager>>

SpecRequest == Init /\ [][RequestNext]_vars

ForkNext ==
    \/ RolloutRecord /\ UNCHANGED <<histVars, sessVars, signVars, chatVars, toolVars, exec, responses, request, manager>>
    \/ fork_conversation /\ UNCHANGED <<histVars, sessVars, signVars, chatVars, toolVars, exec, responses, request, manager>>

SpecFork == Init /\ [][ForkNext]_vars

ManagerNext ==
    \/ new_conversation /\ UNCHANGED <<histVars, sessVars, signVars, chatVars, toolVars, exec, responses, request, fork>>
    \/ set_conversation_connection /\ UNCHANGED <<histVars, sessVars, signVars, chatVars, toolVars, exec, responses, request, fork>>
    \/ remove_conversation /\ UNCHANGED <<histVars, sessVars, signVars, chatVars, toolVars, exec, responses, request, fork>>
    \/ get_conversation_connection /\ UNCHANGED <<histVars, sessVars, signVars, chatVars, toolVars, exec, responses, request, fork>>

SpecManager == Init /\ [][ManagerNext]_vars

(***************************************************************************)
(* C1: in the projection submitted to the model (pair-fill followed by     *)
(* orphan prune) every FunctionCall / CustomToolCall has an output of its  *)
(* kind with the same call_id, and every FunctionCallOutput /              *)
(* CustomToolCallOutput has a call with the same call_id.                  *)
(***************************************************************************)
C1_PairingBothWays ==
    \A i \in 1..Len(prompt_input) :
        LET it == prompt_input[i] IN
        /\ it.type = "FunctionCall"
            => HasItem(prompt_input, "FunctionCallOutput", Unwrap(it.call_id))
        /\ it.type = "CustomToolCall"
            => HasItem(prompt_input, "CustomToolCallOutput", Unwrap(it.call_id))
        /\ it.type = "FunctionCallOutput"
            => \/ HasItem(prompt_input, "FunctionCall", Unwrap(it.call_id))
               \/ HasItem(prompt_input, "LocalShellCall", Unwrap(it.call_id))
        /\ it.type = "CustomToolCallOutput"
            => HasItem(prompt_input, "CustomToolCall", Unwrap(it.call_id))

\* A projection that both inserted a placeholder and dropped an orphan.
C1_Witness ==
    /\ prompt_input = get_history_for_prompt(items)
    /\ \E i \in 1..Len(prompt_input) : prompt_input[i].text = <<PLACEHOLDER>>
    /\ \E j \in 1..Len(items) :
          /\ items[j].type \in {"FunctionCallOutput", "CustomToolCallOutput"}
          /\ items[j] \notin Range(prompt_input)

(***************************************************************************)
(* C3: after any update_plan call the stored plan has at most one step     *)
(* whose status is in_progress.                                            *)
(***************************************************************************)
C3_AtMostOneInProgress ==
    current_plan # None => CountStatus(Unwrap(current_plan), "in_progress") <= 1

(***************************************************************************)
(* C5: if the plan read when compaction starts has a step that is not      *)
(* completed, the history a successful compaction installs contains a      *)
(* user message describing that plan.                                      *)
(***************************************************************************)
HasIncompleteStep(plan) ==
    plan # None /\ \E i \in 1..Len(Unwrap(plan)) : Unwrap(plan)[i].status # "completed"

C5_CompactionKeepsPlan ==
    (compact.pc = "installed" /\ HasIncompleteStep(compact.current_plan))
        => \E i \in 1..Len(items) :
              items[i] = Message("user", plan_reminder(Unwrap(compact.current_plan)))

\* A compaction installed its history for a plan whose only open step is in progress.
C5_Witness ==
    /\ compact.pc = "installed"
    /\ compact.current_plan # None
    /\ CountStatus(Unwrap(compact.current_plan), "in_progress") = 1
    /\ CountStatus(Unwrap(compact.current_plan), "pending") = 0
    /\ CountStatus(Unwrap(compact.current_plan), "completed") = 1
    /\ \E i \in 1..Len(items) : items[i].type = "CompactionSummary"

(***************************************************************************)
(* C2: for a Chat stream of valid events, however it terminates (terminal  *)
(* finish_reason, finish_reason tool_calls then end of stream, a whole-item *)
(* frame, [DONE], or plain end of stream), the decoder sends exactly one   *)
(* Completed and sends nothing after it.  A run that ends on a transport   *)
(* error or an idle timeout is not such a stream; it sends no Completed.   *)
(***************************************************************************)
CompletedPositions(tx) == {i \in 1..Len(tx) : tx[i].event = "Completed"}

EndedByError(tx) == tx # <<>> /\ Last(tx).event = "Err"

C2_ExactlyOneCompletedLast ==
    LET tx == chat.tx_event
    IN /\ Cardinality(CompletedPositions(tx)) <= 1
       /\ CompletedPositions(tx) \subseteq {Len(tx)}
       /\ (chat.returned /\ ~EndedByError(tx)) => CompletedPositions(tx) = {Len(tx)}

\* Tool calls were finished by finish_reason tool_calls and the stream then
\* ended: a FunctionCall was sent, and Completed is the last event.
C2_Witness ==
    LET tx == chat.tx_event
    IN /\ chat.returned
       /\ tx # <<>>
       /\ Last(tx).event = "Completed"
       /\ \E i \in 1..Len(tx) :
            tx[i].event = "OutputItemDone" /\ tx[i].item.type = "function_call"

(***************************************************************************)
(* C8 (as stated): for any two Chat streams whose tool-call fragments      *)
(* arrive in different orders but yield the same final (name, arguments,   *)
(* id) triple for every tool call, the emitted FunctionCall items and      *)
(* their order are identical.                                              *)
(***************************************************************************)
\* The slots of a stream once all its fragments are merged.
MergedSlots(stream) == MergeToolCalls(NewDecoder, stream)

NamedSlots(d) == {i \in DOMAIN d.tool_calls : d.tool_calls[i].name # None}

SlotTriple(d, i) ==
    <<Unwrap(d.tool_calls[i].name), d.tool_calls[i].arguments, d.tool_calls[i].id>>

\* The final triples of a stream, each with the number of tool calls that have it.
FinalTriples(stream) ==
    LET d == MergedSlots(stream)
        triples == {SlotTriple(d, i) : i \in NamedSlots(d)}
    IN [t \in triples |-> Cardinality({i \in NamedSlots(d) : SlotTriple(d, i) = t})]

IsFunctionCallDone(e) == e.event = "OutputItemDone" /\ e.item.type = "function_call"

\* The FunctionCall items a run sent, in the order it sent them.
RECURSIVE EmittedFunctionCalls(_)
EmittedFunctionCalls(tx) ==
    IF tx = <<>> THEN <<>>
    ELSE IF IsFunctionCallDone(Head(tx))
         THEN <<Head(tx).item>> \o EmittedFunctionCalls(Tail(tx))
         ELSE EmittedFunctionCalls(Tail(tx))

OrderDone == order.decA.returned /\ order.decB.returned

C8_AnyOrderSameOutput ==
    (OrderDone /\ FinalTriples(order.streamA) = FinalTriples(order.streamB))
        => EmittedFunctionCalls(order.decA.tx_event)
               = EmittedFunctionCalls(order.decB.tx_event)

(***************************************************************************)
(* C8 (amended): take two Chat streams made of the same tool-call          *)
(* fragments, every fragment carrying an index, no id used with two        *)
(* indexes, in two orders that keep the fragments of each index in the     *)
(* same relative order.  The decoder then builds the same (name,           *)
(* arguments, id) for every index and emits the same FunctionCall items;   *)
(* it emits them in the order in which their slots were created, so the    *)
(* two outputs are the same sequence when the named slots are created in   *)
(* the same order.                                                         *)
(***************************************************************************)
AllIndexed(stream) == \A i \in 1..Len(stream) : stream[i].index # None

IdsKeepTheirIndex(stream) ==
    \A i, j \in 1..Len(stream) :
        (stream[i].id # None /\ stream[i].id = stream[j].id)
            => stream[i].index = stream[j].index

FragmentsOfIndex(stream, index) == SelectSeq(stream, LAMBDA f : f.index = index)

SameOrderWithinEachIndex(streamA, streamB) ==
    \A f \in Range(streamA) :
        FragmentsOfIndex(streamA, f.index) = FragmentsOfIndex(streamB, f.index)

\* The named slots of a stream in the order of their creation.
NamedSlotOrder(stream) ==
    LET d == MergedSlots(stream)
    IN SelectSeq(d.tool_call_order, LAMBDA i : i \in NamedSlots(d))

C8_Reorderable ==
    /\ AllIndexed(order.streamA)
    /\ IdsKeepTheirIndex(order.streamA)
    /\ SameOrderWithinEachIndex(order.streamA, order.streamB)

C8_InterleavingSameItems ==
    (OrderDone /\ C8_Reorderable)
        => LET itemsA == EmittedFunctionCalls(order.decA.tx_event)
               itemsB == EmittedFunctionCalls(order.decB.tx_event)
           IN /\ MergedSlots(order.streamA).tool_calls
                    = MergedSlots(order.streamB).tool_calls
              /\ Range(itemsA) = Range(itemsB)
              /\ Len(itemsA) = Len(itemsB)
              /\ NamedSlotOrder(order.streamA) = NamedSlotOrder(order.streamB)
                    => itemsA = itemsB

\* Two indexed tool calls whose fragments arrive in two different orders:
\* both runs emitted both calls, in different orders.
C8_Witness ==
    /\ OrderDone
    /\ C8_Reorderable
    /\ order.streamA # order.streamB
    /\ Len(EmittedFunctionCalls(order.decA.tx_event)) = 2
    /\ EmittedFunctionCalls(order.decA.tx_event)
           # EmittedFunctionCalls(order.decB.tx_event)

(***************************************************************************)
(* C4: within one conversation, once the user has approved a shell request *)
(* with key (argv, cwd, escalated), no later dispatch with the same key    *)
(* issues an approval prompt, in this turn or a later one.                 *)
(***************************************************************************)
C4_NoPromptOnceApproved ==
    [][\A dispatch \in shell'.last :
          (shell'.dispatches = shell.dispatches + 1 /\ dispatch.prompted)
              => RequestKey(dispatch.exec_params) \notin shell.approved]_vars

\* A later turn dispatches an approved key again and runs it from the cache.
C4_Witness ==
    /\ shell.turns > 1
    /\ \E dispatch \in shell.last :
         /\ RequestKey(dispatch.exec_params) \in shell.approved
         /\ dispatch.cache_hit
         /\ ~dispatch.prompted
         /\ dispatch.result = "executed"

(***************************************************************************)
(* C9: a handler failure other than Fatal comes back from the router as a  *)
(* successful dispatch carrying an output item for the same call_id: a     *)
(* FunctionCallOutput with the error message and success = false, or a     *)
(* CustomToolCallOutput when the payload was custom.  Only Fatal comes     *)
(* back as an error.                                                       *)
(***************************************************************************)
C9_FailureBecomesOutput ==
    \A i \in 1..Len(router) :
        LET call == router[i].call
            handled == router[i].handler_result
            result == router[i].result
        IN /\ (~handled.ok /\ handled.error.error # "Fatal")
                 => /\ result.ok
                    /\ result.value.call_id = call.call_id
                    /\ IF call.payload = "Custom"
                       THEN result.value =
                                InputCustomToolCallOutput(
                                    call.call_id, ErrorToString(handled.error))
                       ELSE result.value =
                                InputFunctionCallOutput(
                                    call.call_id, ErrorToString(handled.error),
                                    Some(FALSE))
           /\ ~result.ok <=> (~handled.ok /\ handled.error.error = "Fatal")
           /\ ~result.ok => result.error = handled.error

\* A custom call failed with RespondToModel and a function call failed too:
\* both came back as output items.
C9_Witness ==
    /\ \E i \in 1..Len(router) :
         /\ router[i].call.payload = "Custom"
         /\ router[i].handler_result = Err(RespondToModel("failed to parse function arguments"))
         /\ router[i].result.ok
         /\ router[i].result.value.type = "CustomToolCallOutput"
    /\ \E i \in 1..Len(router) :
         /\ router[i].call.payload = "LocalShell"
         /\ router[i].handler_result = Err(MissingLocalShellCallId)
         /\ router[i].result.ok
         /\ router[i].result.value.type = "FunctionCallOutput"

(***************************************************************************)
(* C10: for one streaming request the client refreshes the token at most   *)
(* once and retries at most once after a 401; a second 401 after a refresh *)
(* is returned as an error; a refresh is attempted only when the auth mode *)
(* is ChatGPT.  The loop ends: once the second request has been answered,  *)
(* the call has returned.                                                  *)
(***************************************************************************)
C10_OneRefreshOneRetry ==
    /\ client.refreshes <= 1
    /\ client.attempts <= 2
    /\ client.attempts <= client.refreshes + 1
    /\ client.refresh_modes \subseteq {"ChatGPT"}
    /\ client.unauthorized = 2
          => client.pc = "returned" /\ client.result = Some("Err(Unauthorized)")
    /\ client.attempts = 2 => client.pc = "returned"
    /\ client.pc = "loop" /\ client.attempts = 1 => client.refreshed

\* A 401, a refresh, the retry, and a second 401 that is returned as an error.
C10_Witness ==
    /\ client.pc = "returned"
    /\ client.refreshes = 1
    /\ client.attempts = 2
    /\ client.unauthorized = 2
    /\ client.result = Some("Err(Unauthorized)")

(***************************************************************************)
(* C6: a signature produced by sign for (conversation id, flag) at time t  *)
(* verifies against the same conversation id, flag and timestamp at any    *)
(* verification time now with |now - t| <= 60 and t + 300 >= now.          *)
(***************************************************************************)
Abs(n) == IF n < 0 THEN 0 - n ELSE n

PresentedAsSigned(v) ==
    \E sig \in signatures :
        /\ sig.conversation_id = v.conversation_id
        /\ sig.is_user_turn = v.is_user_turn
        /\ sig.timestamp = v.timestamp
        /\ sig.signature = v.signature

C6_SignThenVerifyOk ==
    \A v \in verification :
        (/\ PresentedAsSigned(v)
         /\ Abs(v.now - v.timestamp) <= 60
         /\ v.timestamp + 300 >= v.now)
            => v.result = "Ok"

\* An untampered signature verified by a clock 60 seconds behind the signer's.
C6_Witness ==
    \E v \in verification :
        PresentedAsSigned(v) /\ v.timestamp = v.now + 60 /\ v.result = "Ok"

(***************************************************************************)
(* C7: verification returns Err whenever the conversation id, the turn     *)
(* flag or the signature presented differs from what was signed, and       *)
(* whenever the timestamp was signed more than 300 seconds before the      *)
(* verifier's clock or lies more than 60 seconds ahead of it.              *)
(***************************************************************************)
C7_TamperOrWindowIsErr ==
    \A v \in verification :
        (\/ ~PresentedAsSigned(v)
         \/ v.now - v.timestamp > 300
         \/ v.timestamp - v.now > 60)
            => v.result # "Ok"

\* The flag alone was changed, inside the validity window, and it was refused.
C7_Witness ==
    \E v \in verification :
        /\ v.result = "Err(Invalid signature)"
        /\ \E sig \in signatures :
              /\ sig.conversation_id = v.conversation_id
              /\ sig.timestamp = v.timestamp
              /\ sig.signature = v.signature
              /\ sig.is_user_turn # v.is_user_turn

(***************************************************************************)
(* C11 (as stated).  Once the process of a session has exited, the session *)
(* is no longer in the session table, and every write_stdin that starts    *)
(* after the exit returns UnknownSessionId.                                *)
(***************************************************************************)
C11_ExitedSessionIsUnknown ==
    /\ \A session_id \in exec.exited : session_id \notin DOMAIN exec.sessions
    /\ \A i \in 1..Len(exec.writes) :
          (exec.writes[i].after_exit /\ exec.writes[i].pc = "done")
             => exec.writes[i].result = Err(UnknownSessionId(exec.writes[i].session_id))

(***************************************************************************)
(* C11 (amended).  Once a write_stdin has reported the exit of a session's *)
(* process (it returned a response with session_id None), the session is   *)
(* no longer in the session table, and every write_stdin that starts after *)
(* that returns UnknownSessionId.                                          *)
(***************************************************************************)
C11_ReportedSessionIsUnknown ==
    /\ \A session_id \in exec.reported : session_id \notin DOMAIN exec.sessions
    /\ \A i \in 1..Len(exec.writes) :
          exec.writes[i].after_report
             => /\ exec.writes[i].pc = "done"
                /\ exec.writes[i].result
                      = Err(UnknownSessionId(exec.writes[i].session_id))

\* A write_stdin was made to a session whose exit an earlier write_stdin
\* had reported.
C11_Witness ==
    \E i \in 1..Len(exec.writes) :
        /\ exec.writes[i].after_report
        /\ exec.writes[i].session_id \in exec.exited
        /\ exec.writes[i].pc = "done"

(***************************************************************************)
(* C12.  The session table never holds more than                           *)
(* MAX_UNIFIED_EXEC_SESSIONS (64) sessions.                                *)
(***************************************************************************)
C12_AtMost64Sessions ==
    Cardinality(DOMAIN exec.sessions) <= MAX_UNIFIED_EXEC_SESSIONS

(***************************************************************************)
(* C13 (as stated).  In both decoders, when the stream ends and no         *)
(* explicit completion frame was read, the last event sent is a Completed  *)
(* with no response_id.                                                    *)
(***************************************************************************)
C13_BothCompleteOnStreamEnd ==
    [][/\ ChatStreamEnd =>
            /\ Last(chat'.tx_event).event = "Completed"
            /\ Last(chat'.tx_event).response_id = ""
       /\ (SseStreamEnd /\ responses.response_completed = None) =>
            /\ Last(responses'.tx_event).event = "Completed"
            /\ Last(responses'.tx_event).response_id = ""]_vars

(***************************************************************************)
(* C13 (amended).  When the stream ends and no explicit completion frame   *)
(* was read, the Chat decoder sends, as its last event, a Completed with   *)
(* an empty response_id and the usage accumulated so far; the Responses    *)
(* decoder sends no Completed at all: its last event is the error recorded *)
(* from response.failed (or from a response.completed it could not parse), *)
(* else Stream("stream closed before response.completed").                 *)
(***************************************************************************)
C13_StreamEndByVariant ==
    [][/\ ChatStreamEnd =>
            Last(chat'.tx_event) = Completed(chat.accumulated_usage)
       /\ (SseStreamEnd /\ responses.response_completed = None) =>
            /\ Last(responses'.tx_event) =
                  (IF responses.response_error # None
                   THEN Unwrap(responses.response_error)
                   ELSE StreamError("stream closed before response.completed"))
            /\ \A i \in 1..Len(responses'.tx_event) :
                  responses'.tx_event[i].event # "Completed"]_vars

\* A Responses stream that delivered something ended without response.completed.
C13_Witness ==
    /\ responses.returned
    /\ Len(responses.tx_event) > 1
    /\ Last(responses.tx_event) = StreamError("stream closed before response.completed")

(***************************************************************************)
(* C14.  Once the Responses decoder has read a response.failed event, the  *)
(* only thing it sends is the error mapped from that event - no later      *)
(* event of the stream, no Completed - and when it returns, that error is  *)
(* the last thing it sent.                                                 *)
(***************************************************************************)
C14_FailedClosesMailbox ==
    responses.failed # None =>
        LET failed == Unwrap(responses.failed)
        IN /\ \A i \in (failed.at + 1)..Len(responses.tx_event) :
                 responses.tx_event[i] = failed.error
           /\ responses.returned =>
                 /\ Len(responses.tx_event) > failed.at
                 /\ Last(responses.tx_event) = failed.error

(***************************************************************************)
(* C15.  A shell call that asks for escalated permissions in a turn whose  *)
(* approval policy is not OnRequest is rejected: the call returns          *)
(* RespondToModel, the user is not prompted, nothing is executed and the   *)
(* approval cache is untouched.                                            *)
(***************************************************************************)
C15_EscalationRejected ==
    [][\A dispatch \in shell'.last :
          (/\ shell'.dispatches = shell.dispatches + 1
           /\ dispatch.exec_params.sandbox_permissions = "RequireEscalated"
           /\ shell.approval_policy # "OnRequest")
             => /\ dispatch.result = "Err(RespondToModel)"
                /\ ~dispatch.prompted
                /\ ~dispatch.cache_hit
                /\ shell'.approval_cache = shell.approval_cache
                /\ shell'.approved = shell.approved]_vars

\* An escalated call was rejected in a turn under UnlessTrusted, after the
\* same command had been approved in an OnRequest turn.
C15_Witness ==
    /\ shell.approval_policy = "UnlessTrusted"
    /\ shell.approved # {}
    /\ \E dispatch \in shell.last :
          /\ dispatch.exec_params.sandbox_permissions = "RequireEscalated"
          /\ RequestKey(dispatch.exec_params) \in shell.approved
          /\ dispatch.result = "Err(RespondToModel)"

(***************************************************************************)
(* C16.  Compaction replaces the history in one step: while a compaction   *)
(* is in flight the history a reader sees starts with the complete history *)
(* the compaction read (before the replacement is installed) or with the   *)
(* complete replacement (from then on), followed only by items recorded in *)
(* the meantime - never a mixture of the two; and ContextCompacted is sent *)
(* only once the replacement is installed.                                 *)
(***************************************************************************)
IsPrefix(s, t) == Len(s) <= Len(t) /\ SubSeq(t, 1, Len(s)) = s

C16_AtomicReplacement ==
    [][/\ compact'.pc \in {"awaiting", "built"} => IsPrefix(compact'.history, items')
       /\ compact'.pc = "installed" => IsPrefix(compact'.new_history, items')
       /\ (compact.pc = "built" /\ compact'.pc = "installed") =>
             /\ items = compact.history \o SubSeq(items, Len(compact.history) + 1, Len(items))
             /\ items' = compact.new_history
       /\ (sess_events' # sess_events /\ Last(sess_events') = "ContextCompacted") =>
             /\ compact.pc = "installed"
             /\ IsPrefix(compact.new_history, items)]_vars

\* ContextCompacted was sent for a replacement that differs from the
\* history the compaction read, which held an item.
C16_Witness ==
    /\ sess_events # <<>>
    /\ Last(sess_events) = "ContextCompacted"
    /\ \E i \in 1..Len(items) : items[i].type = "CompactionSummary"
    /\ \E i \in 1..Len(items) : items[i].type = "GhostSnapshot"

(***************************************************************************)
(* C17.  The history a successful compaction installs ends with the        *)
(* GhostSnapshot items of the history the compaction read, all of them, in *)
(* their original order, after every replacement item.                     *)
(***************************************************************************)
GhostSnapshotsOf(history) ==
    LET is_ghost(item) == item.type = "GhostSnapshot"
    IN SelectSeq(history, is_ghost)

C17_GhostSnapshotsKept ==
    [][(compact.pc = "built" /\ compact'.pc = "installed") =>
          LET ghosts == GhostSnapshotsOf(compact.history)
              kept == Len(items') - Len(ghosts)
          IN /\ kept >= 0
             /\ SubSeq(items', kept + 1, Len(items')) = ghosts
             /\ GhostSnapshotsOf(SubSeq(items', 1, kept)) = <<>>]_vars

\* A replacement was installed for a history with two different ghost
\* snapshots around a message, and it has replacement items.
C17_Witness ==
    /\ compact.pc = "installed"
    /\ Len(GhostSnapshotsOf(compact.history)) = 2
    /\ GhostSnapshotsOf(compact.history)[1] # GhostSnapshotsOf(compact.history)[2]
    /\ compact.history[2].type = "Message"
    /\ items[1].type # "GhostSnapshot"

(***************************************************************************)
(* C18.  In the messages built from a history, a FunctionCall or           *)
(* CustomToolCall whose call_id has no FunctionCallOutput or               *)
(* CustomToolCallOutput in the history is emitted as plain assistant text  *)
(* and never as a tool_calls entry: there are no more tool_calls entries   *)
(* than calls with an output, and no fewer "(No output recorded)" texts    *)
(* than calls without one.                                                 *)
(***************************************************************************)
ToolCallsWithOutput(input) ==
    {i \in 1..Len(input) :
        /\ input[i].type \in {"FunctionCall", "CustomToolCall"}
        /\ \E j \in 1..Len(input) :
              /\ input[j].type \in {"FunctionCallOutput", "CustomToolCallOutput"}
              /\ input[j].call_id = input[i].call_id}

ToolCallsWithoutOutput(input) ==
    {i \in 1..Len(input) : input[i].type \in {"FunctionCall", "CustomToolCall"}}
        \ ToolCallsWithOutput(input)

C18_CallWithoutOutputIsText ==
    request.messages # None =>
        LET messages == Unwrap(request.messages)
            entries == {i \in 1..Len(messages) : messages[i].tool_calls # None}
            texts == {i \in 1..Len(messages) :
                        /\ messages[i].role = "assistant"
                        /\ messages[i].content # None
                        /\ Last(Unwrap(messages[i].content)) = NoOutputRecorded}
        IN /\ Cardinality(entries) <= Cardinality(ToolCallsWithOutput(request.input))
           /\ Cardinality(texts) >= Cardinality(ToolCallsWithoutOutput(request.input))

(***************************************************************************)
(* C19.  In the messages built from a history, every CustomToolCall for    *)
(* which the history holds a CustomToolCallOutput with the same call_id is *)
(* lowered to a function-typed tool_calls entry: there are at least as     *)
(* many such entries as such calls.                                        *)
(***************************************************************************)
CustomToolCallsWithOutput(input) ==
    {i \in 1..Len(input) :
        /\ input[i].type = "CustomToolCall"
        /\ \E j \in 1..Len(input) :
              /\ input[j].type = "CustomToolCallOutput"
              /\ input[j].call_id = input[i].call_id}

C19_CustomToolCallIsLowered ==
    request.messages # None =>
        LET messages == Unwrap(request.messages)
            entries == {i \in 1..Len(messages) :
                          /\ messages[i].tool_calls # None
                          /\ Unwrap(messages[i].tool_calls)[1].type = "function"
                          /\ Unwrap(messages[i].tool_calls)[1].name = "CustomToolCall"}
        IN Cardinality(entries) >= Cardinality(CustomToolCallsWithOutput(request.input))

(***************************************************************************)
(* C20.  The history a fork is spawned with holds exactly the rollout      *)
(* items before the n-th user message (counted from 0, session-prefix      *)
(* messages not counted); with fewer than n+1 user messages in the rollout *)
(* the conversation is spawned new, without history.                       *)
(***************************************************************************)
C20_ForkKeepsPrefix ==
    fork.history # None =>
        LET n == Unwrap(fork.n)
            history == Unwrap(fork.history)
            users == {i \in 1..Len(fork.rollout) : IsUserMessage(fork.rollout[i])}
        IN IF Cardinality(users) < n + 1
           THEN history = New
           ELSE \E p \in users :
                   /\ Cardinality({q \in users : q < p}) = n
                   /\ history.items = SubSeq(fork.rollout, 1, p - 1)
                   /\ history.variant = IF p = 1 THEN "New" ELSE "Forked"

\* A fork before user message 1 of a rollout that opens with a session-prefix
\* message kept three of its four items.
C20_Witness ==
    /\ fork.history # None
    /\ fork.n = Some(1)
    /\ Len(fork.rollout) = 4
    /\ fork.rollout[1].item # None
    /\ is_session_prefix(Unwrap(fork.rollout[1].item).text)
    /\ Unwrap(fork.history).variant = "Forked"
    /\ Len(Unwrap(fork.history).items) = 3

(***************************************************************************)
(* C21.  Once a conversation was removed from the Conversation Manager,    *)
(* the conversation -> connection map has no entry for it, so a lookup of  *)
(* its id finds no connection.                                             *)
(***************************************************************************)
C21_RemovedConversationHasNoConnection ==
    [][\A conversation_id \in manager.conversations :
          conversation_id \notin manager'.conversations =>
              /\ conversation_id \notin DOMAIN manager'.GLOBAL_CONVERSATION_CONNECTIONS
              /\ get_global_conversation_connection(
                     manager'.GLOBAL_CONVERSATION_CONNECTIONS, conversation_id) = None]_vars

(***************************************************************************)
(* C22.  The last message of every built Chat request is a user message or *)
(* a tool output, never an assistant message.                              *)
(***************************************************************************)
C22_LastMessageIsUserOrTool ==
    request.messages # None =>
        Last(Unwrap(request.messages)).role \in {"user", "tool"}

(***************************************************************************)
(* C23.  After a successful update_plan whose steps are all completed no   *)
(* plan is stored; after any other successful update_plan the stored plan  *)
(* is the plan given and the reply carries the number of pending and the   *)
(* number of in-progress steps.                                            *)
(***************************************************************************)
StepsWithStatus(plan, status) ==
    Cardinality({i \in 1..Len(plan) : plan[i].status = status})

C23_PlanClearedWhenAllCompleted ==
    (plan_reply # None /\ Unwrap(plan_reply).ok) =>
        LET plan == Unwrap(plan_event)
        IN IF \A i \in 1..Len(plan) : plan[i].status = "completed"
           THEN current_plan = None
           ELSE /\ current_plan = Some(plan)
                /\ Unwrap(plan_reply).text =
                      <<"Plan updated.", StepsWithStatus(plan, "pending"),
                        StepsWithStatus(plan, "in_progress")>>

\* A plan of three completed steps was accepted and nothing is stored.
C23_Witness ==
    /\ plan_reply # None
    /\ Unwrap(plan_reply).ok
    /\ Len(Unwrap(plan_event)) = 3
    /\ StepsWithStatus(Unwrap(plan_event), "completed") = 3
    /\ current_plan = None

(***************************************************************************)
(* C24.  A complete <tool_call> block in assistant text, possibly split    *)
(* over deltas: when the block is recognised the text in front of it is    *)
(* sent as OutputTextDelta and the call is deferred; no text the decoder   *)
(* sends holds the block; the FunctionCall (call_id xml-tool-call-<N>, the *)
(* JSON of the parameters as arguments) is not sent while the stream is    *)
(* read, and at stream end every deferred call is sent, in order, before   *)
(* the assistant message is closed and Completed is sent.                  *)
(***************************************************************************)
XmlCallId(n) == "xml-tool-call-" \o ToString(n)

IsXmlFunctionCall(e) ==
    /\ e.event = "OutputItemDone"
    /\ e.item.type = "function_call"
    /\ \E n \in 1..(MaxFrames + 1) : e.item.call_id = XmlCallId(n)

\* The events that send the deferred calls, numbered after counter.
XmlFunctionCalls(pending, counter) ==
    [k \in 1..Len(pending) |->
        OutputItemDone(FunctionCallItem(pending[k].function_name, pending[k].parameters,
                                        XmlCallId(counter + k)))]

OptionalDone(item) == IF item = None THEN <<>> ELSE <<OutputItemDone(Unwrap(item))>>

\* The frames of one choice that carry assistant text and no finish_reason.
ContentFrames == {frame \in ChatFrames : frame.kind = "chunk" /\ Len(frame.choices) = 1
                                         /\ frame.choices[1].content # None
                                         /\ frame.choices[1].finish_reason = None}

IsTerminalChunk(frame) ==
    /\ frame.kind = "chunk"
    /\ frame.choices # <<>>
    /\ Head(frame.choices).finish_reason \cap {"stop", "normal", "end_turn", "length"} # {}

TextsOf(events) ==
    LET is_delta(e) == e.event = "OutputTextDelta"
        deltas == SelectSeq(events, is_delta)
    IN [i \in 1..Len(deltas) |-> deltas[i].text]

C25_TerminalFinishFlushesInOrder ==
    [][\A frame \in ChatFrames :
          (IsTerminalChunk(frame) /\ ~chat.returned /\ chat' = ProcessFrame(chat, frame)) =>
             LET new == SubSeq(chat'.tx_event, Len(chat.tx_event) + 1, Len(chat'.tx_event))
                 usage == IF frame.usage # None THEN frame.usage
                          ELSE chat.accumulated_usage
             IN /\ chat'.returned
                /\ \E k \in 0..Len(new) :
                      LET deltas == SubSeq(new, 1, k)
                          texts == TextsOf(deltas)
                          assistant ==
                              IF chat.assistant_item # None
                              THEN Some(AssistantMessage(
                                       Unwrap(chat.assistant_item).content \o texts))
                              ELSE IF texts # <<>> THEN Some(AssistantMessage(texts))
                              ELSE None
                      IN /\ \A i \in 1..k :
                               deltas[i].event \in {"OutputItemAdded", "OutputTextDelta"}
                         /\ SubSeq(new, k + 1, Len(new)) =
                               OptionalDone(chat.reasoning_item)
                                   \o XmlFunctionCalls(chat.pending_xml_tool_calls,
                                                       chat.xml_tool_call_counter)
                                   \o OptionalDone(assistant)
                                   \o <<Completed(usage)>>]_vars

\* Four frames were read: reasoning, a block split over two deltas, and a
\* chunk with text, usage and finish_reason length; all three open items
\* were closed in order and Completed carries the usage.
C25_Witness ==
    LET tx == chat.tx_event
        n == Len(tx)
    IN /\ chat.returned
       /\ chat.event_count = 4
       /\ n >= 4
       /\ tx[n - 3] = OutputItemDone(ReasoningItem("r"))
       /\ tx[n - 2] = OutputItemDone(FunctionCallItem(XmlFunctionName,
                                                      XmlFunctionParametersJson, XmlCallId(1)))
       /\ tx[n - 1] = OutputItemDone(AssistantMessage(<<<<"hi">>, <<"hi">>>>))
       /\ tx[n] = Completed(Some(Usage))

(***************************************************************************)
(* C26.  A chunk whose finish_reason is tool_calls: the decoder sends the  *)
(* open reasoning item (if any) and then exactly one                       *)
(* OutputItemDone(FunctionCall) for each slot that has a name, in the      *)
(* order in which the slots were created, and nothing for a slot without a *)
(* name.  tool_call_order is that order: it grows only at its end, by a    *)
(* slot that did not exist before.                                         *)
(***************************************************************************)
ToolCallsFinishedChunk == Chunk(None, <<FinishChoice("tool_calls")>>)

NamedToolCalls(d) ==
    LET named(index) == d.tool_calls[index].name # None
        indices == SelectSeq(d.tool_call_order, named)
    IN [k \in 1..Len(indices) |->
          LET state == d.tool_calls[indices[k]]
          IN OutputItemDone(FunctionCallItem(
                 Unwrap(state.name), state.arguments,
                 IF state.id = None THEN "tool-call-" \o ToString(indices[k])
                 ELSE Unwrap(state.id)))]

C26_ToolCallsInCreationOrder ==
    [][/\ (~chat.returned /\ chat' = ProcessFrame(chat, ToolCallsFinishedChunk)) =>
            /\ chat'.tx_event =
                  chat.tx_event \o OptionalDone(chat.reasoning_item) \o NamedToolCalls(chat)
            /\ chat'.tool_calls = <<>>
            /\ ~chat'.returned
       /\ \/ chat'.tool_call_order = chat.tool_call_order
          \/ chat'.tool_call_order = <<>>
          \/ \E index \in (DOMAIN chat'.tool_calls) \ (DOMAIN chat.tool_calls) :
                chat'.tool_call_order = Append(chat.tool_call_order, index)]_vars

\* Reasoning was open and slot 1 was created before slot 0: the reasoning
\* item was sent first, then the call of slot 1, then the call of slot 0.
C26_Witness ==
    LET tx == chat.tx_event
        n == Len(tx)
    IN /\ ~chat.returned
       /\ chat.event_count = 4
       /\ n >= 3
       /\ tx[n - 2] = OutputItemDone(ReasoningItem("r"))
       /\ tx[n - 1] = OutputItemDone(FunctionCallItem("g", "", "b"))
       /\ tx[n] = OutputItemDone(FunctionCallItem("f", "", "a"))

(***************************************************************************)
(* C27.  A fragment with an id and no index goes to the slot established   *)
(* for that id; when no slot was established for the id, it goes to a new  *)
(* slot, different from every slot there is, which from then on is the     *)
(* slot of that id.  The slot of an id, once established, never changes.   *)
(***************************************************************************)
\* The fragment the first decoder reads in an OrderFragment step.
FragmentRead == order.streamA[order.decA.event_count + 1]

\* The slot the first decoder merged that fragment into.
SlotTouched == Unwrap(order'.decA.last_tool_call_index)

C27_IdWithoutIndexKeepsSlot ==
    [][OrderFragment =>
          LET d == order.decA
              known == d.tool_call_index_by_id
          IN /\ \A id \in DOMAIN known :
                   /\ id \in DOMAIN order'.decA.tool_call_index_by_id
                   /\ order'.decA.tool_call_index_by_id[id] = known[id]
             /\ (FragmentRead.id # None /\ FragmentRead.index = None) =>
                   LET id == Unwrap(FragmentRead.id)
                   IN /\ id \in DOMAIN known => SlotTouched = known[id]
                      /\ id \notin DOMAIN known =>
                            /\ SlotTouched \notin DOMAIN d.tool_calls
                            /\ order'.decA.tool_call_index_by_id[id] = SlotTouched
                      /\ SlotTouched \in DOMAIN order'.decA.tool_calls]_vars

\* Slot 0 was established for id a, slot 1 was touched after it, and the
\* fragment with id a and no index put its arguments into slot 0.
C27_Witness ==
    /\ order.streamA = <<FragmentA0, FragmentB1, FragmentIdA>>
    /\ order.decA.event_count = 3
    /\ order.decA.last_tool_call_index = Some(0)
    /\ order.decA.tool_calls[0] = [id |-> Some("a"), name |-> Some("f"), arguments |-> "x"]
    /\ order.decA.tool_calls[1].arguments = ""

(***************************************************************************)
(* C28.  A fragment with neither id nor index that follows another         *)
(* fragment goes to the slot touched last, the slot the preceding fragment *)
(* was merged into; no slot is created and no other slot changes.          *)
(***************************************************************************)
C28_BareFragmentGoesToLastSlot ==
    [][OrderFragment =>
          LET d == order.decA
          IN /\ \A i \in DOMAIN d.tool_calls :
                   i # SlotTouched => order'.decA.tool_calls[i] = d.tool_calls[i]
             /\ (/\ FragmentRead.id = None
                 /\ FragmentRead.index = None
                 /\ d.last_tool_call_index # None) =>
                   /\ SlotTouched = Unwrap(d.last_tool_call_index)
                   /\ DOMAIN order'.decA.tool_calls = DOMAIN d.tool_calls]_vars

\* Slot 1 and then slot 0 were touched, and the bare fragment gave its name
\* to slot 0.
C28_Witness ==
    /\ order.streamA = <<FragmentB1, FragmentX0, FragmentBare>>
    /\ order.decA.event_count = 3
    /\ order.decA.tool_calls[0] = [id |-> None, name |-> Some("f"), arguments |-> "x"]
    /\ order.decA.tool_calls[1] = [id |-> Some("b"), name |-> Some("g"), arguments |-> ""]

(***************************************************************************)
(* C29.  The arguments of a slot are the arguments fragments routed to it, *)
(* appended as strings in the order of arrival, and its name is the first  *)
(* non-empty name routed to it; the FunctionCall sent for the slot carries *)
(* that name and those arguments.                                          *)
(***************************************************************************)
C29_ArgumentsAppendedFirstNameWins ==
    [][/\ OrderFragment =>
            LET d == order.decA
                old == IF SlotTouched \in DOMAIN d.tool_calls
                       THEN d.tool_calls[SlotTouched]
                       ELSE [id |-> None, name |-> None, arguments |-> ""]
                new == order'.decA.tool_calls[SlotTouched]
            IN /\ new.arguments =
                     old.arguments \o (IF FragmentRead.arguments = None THEN ""
                                       ELSE Unwrap(FragmentRead.arguments))
               /\ new.name =
                     (IF old.name # None THEN old.name
                      ELSE IF FragmentRead.name = Some("") THEN None
                      ELSE FragmentRead.name)
       /\ OrderFinish =>
            order'.decA.tx_event = order.decA.tx_event \o NamedToolCalls(order.decA)]_vars

\* Three fragments went to slot 0: arguments x, then an empty name with
\* arguments y, then the name f; the call sent is f with arguments xy.
C29_Witness ==
    /\ order.streamA = <<FragmentX0, FragmentEmptyName, FragmentBare>>
    /\ order.decA.event_count = 4
    /\ order.decA.tx_event = <<OutputItemDone(FunctionCallItem("f", "xy", "tool-call-0"))>>

(***************************************************************************)
(* C30.  An assistant Message is left out of the request exactly when its  *)
(* text equals that of the assistant Message immediately before it in the  *)
(* input; equal assistant texts with other items between them are all      *)
(* sent.                                                                   *)
(***************************************************************************)
AssistantTexts(input) ==
    {input[i].text : i \in {j \in DOMAIN input : IsAssistantMessage(input[j])}}

AssistantMessagesSent(input, messages) ==
    Cardinality({i \in DOMAIN messages :
                    /\ messages[i].role = "assistant"
                    /\ messages[i].tool_calls = None
                    /\ messages[i].content \in {Some(t) : t \in AssistantTexts(input)}})

ConsecutiveDuplicates(input) ==
    {i \in DOMAIN input :
        /\ IsAssistantMessage(input[i])
        /\ i > 1
        /\ IsAssistantMessage(input[i - 1])
        /\ input[i - 1].text = input[i].text}

C30_OnlyConsecutiveDuplicatesOmitted ==
    request.messages # None =>
        AssistantMessagesSent(request.input, Unwrap(request.messages)) =
            Cardinality({i \in DOMAIN request.input : IsAssistantMessage(request.input[i])})
            - Cardinality(ConsecutiveDuplicates(request.input))

(***************************************************************************)
(* C31.  When the stream ends, by a [DONE] payload or by end of stream,    *)
(* every slot that has a name is sent as OutputItemDone(FunctionCall)      *)
(* before Completed: the events of the step hold the calls of the named    *)
(* slots, in the order of creation.                                        *)
(***************************************************************************)
DoneFrame == Frame("done", None, None, <<>>)

C31_NamedToolCallsSentAtStreamEnd ==
    [][(~chat.returned /\ (ChatStreamEnd \/ chat' = ProcessFrame(chat, DoneFrame))) =>
          /\ Last(chat'.tx_event).event = "Completed"
          /\ EmittedFunctionCalls(SubSeq(chat'.tx_event, Len(chat.tx_event) + 1,
                                         Len(chat'.tx_event)))
               = [k \in 1..Len(NamedToolCalls(chat)) |-> NamedToolCalls(chat)[k].item]
                 \o [k \in 1..Len(chat.pending_xml_tool_calls) |->
                        XmlFunctionCalls(chat.pending_xml_tool_calls,
                                         chat.xml_tool_call_counter)[k].item]]_vars

(***************************************************************************)
(* C32.  Fragments that carry two different ids are never merged into the  *)
(* same slot: a fragment with an id goes to a slot that has no id yet or   *)
(* has that same id.                                                       *)
(***************************************************************************)
C32_OneIdPerSlot ==
    [][OrderFragment =>
          LET d == order.decA
          IN (/\ FragmentRead.id # None
              /\ SlotTouched \in DOMAIN d.tool_calls
              /\ d.tool_calls[SlotTouched].id # None)
             => d.tool_calls[SlotTouched].id = FragmentRead.id]_vars

(***************************************************************************)
(* C33.  The FunctionCall items sent within one stream have pairwise       *)
(* distinct call_ids.                                                      *)
(***************************************************************************)
C33_DistinctCallIds ==
    LET calls == EmittedFunctionCalls(chat.tx_event)
    IN \A i, j \in DOMAIN calls : i # j => calls[i].call_id # calls[j].call_id

(***************************************************************************)
(* C34.  Each complete <tool_call>...</tool_call> block of the assistant   *)
(* text yields exactly one deferred FunctionCall: a delta adds as many     *)
(* deferred calls as it completes blocks, whatever tags stand elsewhere in *)
(* the text.  A complete block is an opening tag, a closing tag after it   *)
(* with no tag between the two, and a function element between them.       *)
(***************************************************************************)
CompleteBlocks(text) ==
    {i \in Positions(text, XmlOpenTag) :
        \E j \in Positions(text, XmlCloseTag) :
            /\ j > i
            /\ \A k \in (i + 1)..(j - 1) : text[k] \notin {XmlOpenTag, XmlCloseTag}
            /\ \E k \in (i + 1)..(j - 1) : text[k] = XmlFunctionElement}

C34_OneCallPerCompleteBlock ==
    [][\A frame \in ContentFrames :
          (~chat.returned /\ chat' = ProcessFrame(chat, frame)) =>
              LET text == chat.xml_tool_call_buffer \o Unwrap(frame.choices[1].content)
              IN Len(chat'.pending_xml_tool_calls) - Len(chat.pending_xml_tool_calls)
                   = Cardinality(CompleteBlocks(text))
                     - Cardinality(CompleteBlocks(chat.xml_tool_call_buffer))]_vars

(***************************************************************************)
(* C35.  Assistant content outside a complete <tool_call> block is sent in *)
(* an OutputTextDelta and is part of the assistant Message closed before   *)
(* Completed: a delta sends, or keeps buffered, every piece of the text    *)
(* that lies outside the complete blocks, and when the stream ends nothing *)
(* outside a complete block is left unsent in the buffer.                  *)
(***************************************************************************)
OutsideBlocks(text) ==
    {k \in DOMAIN text :
        ~\E i \in CompleteBlocks(text) :
            /\ i <= k
            /\ \E j \in Positions(text, XmlCloseTag) :
                  /\ k <= j
                  /\ \A m \in (i + 1)..(j - 1) : text[m] \notin {XmlOpenTag, XmlCloseTag}}

PiecesOf(texts) == UNION {Range(texts[i]) : i \in DOMAIN texts}

SentSince(before, after) ==
    PiecesOf(TextsOf(SubSeq(after.tx_event, Len(before.tx_event) + 1, Len(after.tx_event))))

C35_TextOutsideBlocksIsSent ==
    [][/\ \A frame \in ContentFrames :
            (~chat.returned /\ chat' = ProcessFrame(chat, frame)) =>
                LET text == chat.xml_tool_call_buffer \o Unwrap(frame.choices[1].content)
                IN \A k \in OutsideBlocks(text) :
                      \/ text[k] \in SentSince(chat, chat')
                      \/ text[k] \in Range(chat'.xml_tool_call_buffer)
       /\ (~chat.returned /\ (ChatStreamEnd \/ chat' = ProcessFrame(chat, DoneFrame))) =>
             \A k \in OutsideBlocks(chat.xml_tool_call_buffer) :
                 /\ chat.xml_tool_call_buffer[k] \in SentSince(chat, chat')
                 /\ \E e \in Range(chat'.tx_event) :
                       /\ e.event = "OutputItemDone"
                       /\ e.item.type = "message"
                       /\ chat.xml_tool_call_buffer[k] \in PiecesOf(e.item.content)]_vars

(***************************************************************************)
(* C36.  In a request built from a history, every message of role tool     *)
(* with tool_call_id X comes after an assistant message whose tool_calls   *)
(* hold an entry of id X.  The histories considered are those the context  *)
(* manager hands over: no output without its call is left in them, and     *)
(* every output stands after its call.                                     *)
(***************************************************************************)
OutputsFollowTheirCalls(input) ==
    /\ remove_orphan_outputs(input) = input
    /\ \A i \in DOMAIN input :
          input[i].type \in {"FunctionCallOutput", "CustomToolCallOutput"} =>
              RetainItem(SubSeq(input, 1, i - 1), input[i])

C36_NoOrphanToolMessage ==
    (request.messages # None /\ OutputsFollowTheirCalls(request.input)) =>
        LET messages == Unwrap(request.messages)
        IN \A i \in DOMAIN messages :
              messages[i].role = "tool" =>
                 \E j \in 1..(i - 1) :
                    /\ messages[j].role = "assistant"
                    /\ messages[j].tool_calls # None
                    /\ \E entry \in Range(Unwrap(messages[j].tool_calls)) :
                          entry.id = messages[i].tool_call_id

(***************************************************************************)
(* C37.  For every exec_command call exactly one ExecCommandEnd is sent    *)
(* for its call_id: none while its process is still running, never more    *)
(* than one, and one once a call has reported that the process exited (the *)
(* exec_command itself or a later write_stdin returned session_id None).   *)
(***************************************************************************)
RECURSIVE EndCountOver(_, _)
EndCountOver(events, call_id) ==
    IF events = {} THEN 0
    ELSE LET event == CHOOSE e \in events : TRUE
         IN (IF event.call_id = call_id THEN exec.ended[event] ELSE 0)
            + EndCountOver(events \ {event}, call_id)

EndCount(call_id) == EndCountOver(DOMAIN exec.ended, call_id)

C37_ExactlyOneExecCommandEnd ==
    /\ \A n \in 0..MaxExecCalls : EndCount("call-" \o ToString(n)) <= 1
    /\ \A session_id \in (DOMAIN exec.sessions) \ exec.exited :
          EndCount(exec.sessions[session_id].call_id) = 0
    /\ \A i \in 1..Len(exec.writes) :
          (/\ exec.writes[i].pc = "done"
           /\ exec.writes[i].result.ok
           /\ exec.writes[i].result.value.session_id = None)
             => EndCount(exec.writes[i].result.value.event_call_id) = 1

(***************************************************************************)
(* C38.  When write_stdin calls race on a session whose process has        *)
(* exited, the call that finds the session in the table removes it, sends  *)
(* its ExecCommandEnd and returns the final response; every other call     *)
(* sends no ExecCommandEnd, leaves the table alone, and returns            *)
(* UnknownSessionId once the session is gone.                              *)
(***************************************************************************)
C38_OneWriterEndsTheSession ==
    [][WriteStdinEnd =>
          \A i \in 1..Len(exec.writes) :
             (exec.writes[i].pc = "collect" /\ exec'.writes[i].pc = "done") =>
                LET session_id == exec.writes[i].session_id
                    result == exec'.writes[i].result
                IN IF session_id \in DOMAIN exec.sessions /\ session_id \in exec.exited
                   THEN /\ session_id \notin DOMAIN exec'.sessions
                        /\ result.ok
                        /\ result.value.session_id = None
                        /\ \E exit_code \in {-1, 0} :
                              exec'.ended =
                                 Emit(exec.ended,
                                      ExecCommandEnd(exec.sessions[session_id].call_id,
                                                     exit_code))
                   ELSE /\ exec'.ended = exec.ended
                        /\ exec'.sessions = exec.sessions
                        /\ session_id \notin DOMAIN exec.sessions =>
                              result = Err(UnknownSessionId(session_id))]_vars

(***************************************************************************)
(* C39.  When the call to the compact endpoint fails, the history is left  *)
(* as it was: the step changes no item, the history still starts with the  *)
(* history the compaction read, an Error event is sent, and the compaction *)
(* is over without a ContextCompacted event, which is sent only for a      *)
(* compaction that has installed its replacement.                          *)
(***************************************************************************)
C39_FailedCompactionKeepsHistory ==
    [][/\ (compact.pc = "awaiting" /\ compact'.pc = "idle") =>
             /\ items' = items
             /\ IsPrefix(compact.history, items')
             /\ sess_events' = Append(sess_events, "Error")
             /\ compact' = CompactIdle
       /\ (sess_events' # sess_events /\ Last(sess_events') = "ContextCompacted") =>
             compact.pc = "installed"]_vars

\* A compaction over a history with an item has failed: the last event is
\* Error, the item is still there, and no compaction is in flight.
C39_Witness ==
    /\ sess_events # <<>>
    /\ Last(sess_events) = "Error"
    /\ compact.pc = "idle"
    /\ items # <<>>

(***************************************************************************)
(* C40.  An item appended to the history while a compaction is in flight   *)
(* (after the compaction has read the history and before it installs the   *)
(* replacement) is still in the history once the replacement is installed. *)
(***************************************************************************)
C40_ItemsRecordedInFlightAreKept ==
    [][(compact.pc = "built" /\ compact'.pc = "installed") =>
          \A k \in (Len(compact.history) + 1)..Len(items) :
             \E j \in 1..Len(items') : items'[j] = items[k]]_vars

====
